---- MODULE Spec2Model ----
(***************************************************************************)
(* A model of awq/quantize/quantizer.py (class AwqQuantizer).              *)
(*                                                                         *)
(* Tensors of the pseudo-quantizer and of the clip search hold exact       *)
(* rationals <<n, d>> (d > 0, lowest terms).  Matrices are sequences of    *)
(* rows.  Each component of the quantizer has its own specification        *)
(* (SpecQ, SpecClip, SpecScale, SpecPipe) over its own variables; the      *)
(* variables of the other components stay at their idle values.            *)
(***************************************************************************)
EXTENDS Integers, Sequences, FiniteSets, TLC

VARIABLES
    \* pseudo_quantize_tensor / pseudo_dequantize_tensor
    qcfg,       \* self.w_bit, self.group_size, self.zero_point
    qw,         \* the tensor w handed to pseudo_quantize_tensor
    qres,       \* what pseudo_quantize_tensor computed (w, scales, zeros, codes)
    qdeq,       \* what pseudo_dequantize_tensor returned
    qpc,        \* "start", "quantized", "dequantized", "AssertionError"
    \* _compute_best_clip
    ccfg,       \* self.w_bit, self.group_size, self.zero_point
    cw,         \* w, [co, ci]
    cfeat,      \* input_feat, [n_token, ci]
    c_ib,       \* i_b, the block of output channels being searched
    c_is,       \* i_s, the next shrink step of the block
    c_best,     \* best_max_val of the block: per channel, per group
    c_minerr,   \* min_errs of the block: per channel, per group
    c_all,      \* best_max_val_all, flattened to one entry per channel
    cpc,        \* "idle", "start", "block", "trial", "returned", "AssertionError"
    \* _compute_best_scale
    sdev,       \* x.device, the dtype of the tensors, self.duo_scaling
    x_mean,     \* per input channel mean of |x|
    w_mean,     \* per input channel mean of the normalised |w|
    loss_of,    \* what the forward pass and _compute_loss give for each ratio
    store,      \* tensor storages of each layer of linears2scale
    param,      \* the storage fc.weight.data is bound to, per layer
    org_sd,     \* the storage org_sd holds, per layer
    ratio_i,    \* the loop variable of the grid search, 0 .. n_grid
    s_scales,   \* scales (and scales_view, which shares its storage)
    history,    \* history
    best_error, \* best_error
    best_ratio, \* best_ratio as a grid index, -1 when unset
    best_scales,\* best_scales
    logged,     \* what logging.debug was given
    ret_scales, \* the returned tensor
    spc,        \* "idle", "start", "grid", "forward", "returned", "Exception",
                \* "AssertionError"
    \* quantize / _apply_quant
    pcfg,       \* self.version, self.apply_clip, self.export_compatible, and the
                \* module whose scale search finds no finite loss (0: none)
    p_w,        \* what has been done to each linear's weight, per module
    p_i,        \* i, the module quantize is working on
    p_j,        \* the position of _apply_quant in named_linears
    ppc,        \* "idle", "capture", "search", "clip", "apply_clip", "quant",
                \* "pq", "version", "done", "packed", "ValueError", "Exception"
    p_groups,   \* how many scaling groups the adapter gives, per module
    p_g,        \* how many groups of module i have been searched
    p_inps,     \* self.inps: the module whose output it is (0: the captured
                \* input of module 1) and that module's weights at that time
    p_log,      \* the stages run so far, <<module, stage>>
    p_pack,     \* whether pack() is running, and the linears it has replaced,
                \* <<module, linear>>
    \* _search_best_scale, called twice
    w_abs,      \* the magnitudes of a row of the weight the layers started with
    kw_cache,   \* whether the caller's kwargs holds "use_cache"
    call_no,    \* 1 during the first call, 2 during the second
    first_ret,  \* the scales the first call returned
    \* _compute_loss
    l_a,        \* fp16_output, flattened
    l_b,        \* int_w_output, flattened
    l_mem,      \* self.max_chunk_memory
    l_esz,      \* fp16_output.element_size()
    l_chunks,   \* the index ranges of the chunks torch.split made
    l_k,        \* the number of chunks summed so far
    l_loss,     \* loss, the running sum
    l_seen,     \* how many chunks each element was part of
    l_ret,      \* the returned loss
    lpc,         \* "idle", "start", "loop", "returned", "RuntimeError",
                \* "ZeroDivisionError"
    \* init_quant and Catcher
    i_env,      \* how the model calls its first layer, what the stages before
                \* it raise, the keyword arguments of the call, the model class
    i_first,    \* modules[0]: "layer" or "Catcher"
    i_inps,     \* inps
    i_mask,     \* attention_mask
    i_kwargs,   \* layer_kwargs, the names it holds
    i_exc,      \* the exception in flight inside the try: its type and origin
    i_supp,     \* the origin of the exception that except ValueError swallowed
    ipc,         \* "idle", "start", "model", "layer", "except", "after",
                \* "returned", or the type of the exception that ended the call
    \* _get_input_feat
    f_env,      \* model_type, the names in named_linears, the number of
                \* sub-batches of a forward pass, whether the forward pass raises
    f_hooks,    \* how many forward hooks each sub-module has registered
    f_handles,  \* handles, by the name of the sub-module
    f_feat,     \* input_feat: how many tensors each name has collected
    f_ret,      \* the returned input_feat: how many tensors went into each entry
    f_later,    \* forward passes of the layer after _get_input_feat returned
    fpc,         \* "idle", "start", "forward", "remove", "cat", "returned",
                \* "Error"
    \* the grouping of the weights, stage by stage
    g_size,     \* self.group_size
    g_shape,    \* <<co, ci>>, the shape of the 2-D weight
    g_pq,       \* the groups pseudo_quantize_tensor works on, or the error
    g_wm,       \* the groups of the w_mean of _search_best_scale, or the error
    g_clip,      \* the groups a candidate of _compute_best_clip is quantized in,
                \* or the error
    \* _module_forward
    m_env,      \* self.n_parallel_calib_samples (<<>> for None, <<n>> for n),
                \* whether an attention mask is given, whether the module
                \* returns a tuple
    m_x,        \* x, one entry per calibration sample
    m_parts,    \* partitioned_inputs as ranges of x
    m_calls,    \* the calls of the module so far: the range of x and whether
                \* the attention mask was passed
    m_out,      \* module_output, the list of the partial outputs
    m_ret,      \* the returned tensor
    mpc,         \* "idle", "start", "loop", "returned", "RuntimeError"
    \* _sanitize_kwargs
    k_sig,      \* the signature of module.forward: the named parameters and
                \* whether it has a **kwargs parameter
    k_in,       \* inputs_kwargs
    k_given,    \* inputs_kwargs as it was at the call
    k_out,      \* sanitized_kwargs
    kpc,         \* "idle", "start", "returned"
    \* the x_mean of _search_best_scale
    a_inp,      \* inp as rows of channels
    a_mem,      \* self.max_chunk_memory
    a_esz,      \* inp_flat.element_size()
    a_i,        \* i, the start of the chunk in hand
    a_sum,      \* x_sum
    a_seen,     \* how often each row has been summed
    a_ret,      \* x_mean, each entry as <<sum, num_elements>>
    apc         \* "idle", "start", "loop", "returned", "ValueError"

qvars == <<qcfg, qw, qres, qdeq, qpc>>

cvars == <<ccfg, cw, cfeat, c_ib, c_is, c_best, c_minerr, c_all, cpc>>

svars == <<sdev, x_mean, w_mean, loss_of, store, param, org_sd, ratio_i, s_scales,
           history, best_error, best_ratio, best_scales, logged, ret_scales, spc>>

pvars == <<pcfg, p_w, p_i, p_j, ppc, p_groups, p_g, p_inps, p_log, p_pack>>

rvars == <<w_abs, kw_cache, call_no, first_ret>>

lvars == <<l_a, l_b, l_mem, l_esz, l_chunks, l_k, l_loss, l_seen, l_ret, lpc>>

ivars == <<i_env, i_first, i_inps, i_mask, i_kwargs, i_exc, i_supp, ipc>>

fvars == <<f_env, f_hooks, f_handles, f_feat, f_ret, f_later, fpc>>

gvars == <<g_size, g_shape, g_pq, g_wm, g_clip>>

mvars == <<m_env, m_x, m_parts, m_calls, m_out, m_ret, mpc>>

kvars == <<k_sig, k_in, k_given, k_out, kpc>>

avars == <<a_inp, a_mem, a_esz, a_i, a_sum, a_seen, a_ret, apc>>

vars == <<qvars, cvars, svars, pvars, rvars, lvars, ivars, fvars, gvars, mvars, kvars, avars>>

\* the variables of the other components, for each component
q_rest == <<cvars, svars, pvars, rvars, lvars, ivars, fvars, gvars, mvars, kvars, avars>>

c_rest == <<qvars, svars, pvars, rvars, lvars, ivars, fvars, gvars, mvars, kvars, avars>>

s_rest == <<qvars, cvars, pvars, rvars, lvars, ivars, fvars, gvars, mvars, kvars, avars>>

p_rest == <<qvars, cvars, svars, rvars, lvars, ivars, fvars, gvars, mvars, kvars, avars>>

r_rest == <<qvars, cvars, pvars, lvars, ivars, fvars, gvars, mvars, kvars, avars>>

l_rest == <<qvars, cvars, svars, pvars, rvars, ivars, fvars, gvars, mvars, kvars, avars>>

i_rest == <<qvars, cvars, svars, pvars, rvars, lvars, fvars, gvars, mvars, kvars, avars>>

f_rest == <<qvars, cvars, svars, pvars, rvars, lvars, ivars, gvars, mvars, kvars, avars>>

g_rest == <<qvars, cvars, svars, pvars, rvars, lvars, ivars, fvars, mvars, kvars, avars>>

m_rest == <<qvars, cvars, svars, pvars, rvars, lvars, ivars, fvars, gvars, kvars, avars>>

k_rest == <<qvars, cvars, svars, pvars, rvars, lvars, ivars, fvars, gvars, mvars, avars>>

a_rest == <<qvars, cvars, svars, pvars, rvars, lvars, ivars, fvars, gvars, mvars, kvars>>

-----------------------------------------------------------------------------
(* Exact rational arithmetic (the tensors' element type).                  *)

Abs(n) == IF n < 0 THEN -n ELSE n

RECURSIVE GCD(_, _)
GCD(a, b) == IF b = 0 THEN a ELSE GCD(b, a % b)

Rat(n, d) ==
    LET s == IF d < 0 THEN -1 ELSE 1
        g == GCD(Abs(n), Abs(d))
    IN  <<(s * n) \div g, (s * d) \div g>>

RInt(n) == <<n, 1>>

LCM(a, b) == (a \div GCD(a, b)) * b

RAdd(x, y) ==
    LET l == LCM(x[2], y[2])
    IN  Rat(x[1] * (l \div x[2]) + y[1] * (l \div y[2]), l)

RNeg(x) == <<-x[1], x[2]>>

RSub(x, y) == RAdd(x, RNeg(y))

RMul(x, y) ==
    LET a == Rat(x[1], y[2])
        b == Rat(y[1], x[2])
    IN  <<a[1] * b[1], a[2] * b[2]>>

\* x / y for y # 0
RDiv(x, y) == RMul(x, Rat(y[2], y[1]))

RLe(x, y) ==
    LET l == LCM(x[2], y[2])
    IN  x[1] * (l \div x[2]) <= y[1] * (l \div y[2])

RLt(x, y) == RLe(x, y) /\ x # y

RAbs(x) == <<Abs(x[1]), x[2]>>

RMax2(x, y) == IF RLe(x, y) THEN y ELSE x

RMin2(x, y) == IF RLe(x, y) THEN x ELSE y

\* torch.round: to the nearest integer, ties to the even one
RRound(x) ==
    LET f == x[1] \div x[2]
        r == x[1] - f * x[2]
    IN  IF 2 * r < x[2] THEN f
        ELSE IF 2 * r > x[2] THEN f + 1
        ELSE IF f % 2 = 0 THEN f ELSE f + 1

\* torch.clamp on an integer code
ClampInt(v, lo, hi) == IF v < lo THEN lo ELSE IF v > hi THEN hi ELSE v

\* Tensor.clamp(min=lo), Tensor.clamp(lo, hi) on one element
RClampMin(x, lo) == RMax2(x, lo)

RClamp(x, lo, hi) == RMin2(RMax2(x, lo), hi)

RECURSIVE Amax(_)
Amax(s) == IF Len(s) = 1 THEN s[1] ELSE RMax2(s[1], Amax(Tail(s)))

RECURSIVE Amin(_)
Amin(s) == IF Len(s) = 1 THEN s[1] ELSE RMin2(s[1], Amin(Tail(s)))

Pow2(n) == IF n = 0 THEN 1 ELSE 2 ^ n

-----------------------------------------------------------------------------
(* Shapes: a 2-D tensor is a sequence of rows.                             *)

\* a tensor materialised: the sequence with every element computed
Tensor(f) == <<>> \o f

\* a table computed once for every key of its domain
Table(f) == f @@ <<>>

RECURSIVE Flatten(_)
Flatten(m) == IF m = <<>> THEN <<>> ELSE m[1] \o Flatten(Tail(m))

\* Tensor.reshape(-1, n): rows of length n, in row-major order
Reshape(flat, n) ==
    Tensor([g \in 1..(Len(flat) \div n) |->
               Tensor([k \in 1..n |-> flat[(g - 1) * n + k]])])

\* Tensor.view(rows, -1) of a flat sequence
ViewRows(flat, rows) == Reshape(flat, Len(flat) \div rows)

-----------------------------------------------------------------------------
(* pseudo_quantize_tensor                                                  *)

\* the floor of the dynamic range, 1e-5
Eps5 == <<1, 100000>>

max_int(cfg) ==
    IF cfg.zero_point THEN Pow2(cfg.w_bit) - 1 ELSE Pow2(cfg.w_bit - 1) - 1

min_int(cfg) ==
    IF cfg.zero_point THEN 0 ELSE -Pow2(cfg.w_bit - 1)

GroupScaleRange(cfg, g) ==
    RDiv(RClampMin(RSub(Amax(g), Amin(g)), Eps5), RInt(max_int(cfg)))

\* scales of one group (one row of the reshaped w)
GroupScale(cfg, g) ==
    IF cfg.zero_point
    THEN RDiv(RClampMin(RSub(Amax(g), Amin(g)), Eps5), RInt(max_int(cfg)))
    ELSE RDiv(RClampMin(Amax(Tensor([k \in 1..Len(g) |-> RAbs(g[k])])), Eps5),
              RInt(max_int(cfg)))

\* zeros of one group: (-round(min_val / scales)).clamp_(min_int, max_int)
GroupZero(cfg, g) ==
    ClampInt(-RRound(RDiv(Amin(g), GroupScale(cfg, g))), min_int(cfg), max_int(cfg))

ElemCodeUnclamped(cfg, g, k) ==
    IF cfg.zero_point
    THEN RRound(RDiv(g[k], GroupScale(cfg, g))) + GroupZero(cfg, g)
    ELSE RRound(RDiv(g[k], GroupScale(cfg, g)))

\* the integer the clamp leaves for one element, before the offset is removed
ElemCode(cfg, g, k) ==
    IF cfg.zero_point
    THEN ClampInt(RRound(RDiv(g[k], GroupScale(cfg, g))) + GroupZero(cfg, g),
                  min_int(cfg), max_int(cfg))
    ELSE ClampInt(RRound(RDiv(g[k], GroupScale(cfg, g))), min_int(cfg), max_int(cfg))

GroupCodes(cfg, g) == Tensor([k \in 1..Len(g) |-> ElemCode(cfg, g, k)])

\* the quantized-then-dequantized group
GroupDeq(cfg, g) ==
    Tensor([k \in 1..Len(g) |->
        IF cfg.zero_point
        THEN RMul(RInt(ElemCode(cfg, g, k) - GroupZero(cfg, g)), GroupScale(cfg, g))
        ELSE RMul(RInt(ElemCode(cfg, g, k)), GroupScale(cfg, g))])

\* the asserts on the shape of w (w is 2-D here)
QuantShapeOk(cfg, w) ==
    cfg.group_size > 0 => Len(w[1]) % cfg.group_size = 0

\* w after the optional reshape(-1, group_size)
QuantGroups(cfg, w) ==
    IF cfg.group_size > 0 THEN Reshape(Flatten(w), cfg.group_size) ELSE w

pseudo_quantize_tensor(cfg, w) ==
    LET groups == QuantGroups(cfg, w)
        ng     == Len(groups)
        rows   == Len(w)
    IN  [w      |-> Reshape(Flatten(Tensor([g \in 1..ng |-> GroupDeq(cfg, groups[g])])),
                            Len(w[1])),
         scales |-> ViewRows(Tensor([g \in 1..ng |-> GroupScale(cfg, groups[g])]), rows),
         zeros  |-> IF cfg.zero_point
                    THEN ViewRows(Tensor([g \in 1..ng |-> GroupZero(cfg, groups[g])]), rows)
                    ELSE <<>>,
         hasZeros |-> cfg.zero_point,
         codes  |-> Reshape(Flatten(Tensor([g \in 1..ng |-> GroupCodes(cfg, groups[g])])),
                            Len(w[1]))]

-----------------------------------------------------------------------------
(* pseudo_dequantize_tensor                                                *)

\* Tensor.repeat(1, n) of one row: the whole row, n times over
RECURSIVE RepeatRow(_, _)
RepeatRow(row, n) == IF n = 0 THEN <<>> ELSE row \o RepeatRow(row, n - 1)

\* scales.repeat(1, repeat_count).reshape(w.weight.data.shape)
RepeatTo(m, cols) ==
    Reshape(Flatten(Tensor([r \in 1..Len(m) |-> RepeatRow(m[r], cols \div Len(m[r]))])),
            cols)

pseudo_dequantize_tensor(cfg, wdata, scales, zeros) ==
    LET cols == Len(wdata[1])
        sc   == RepeatTo(scales, cols)
    IN  IF cfg.zero_point
        THEN LET zs == RepeatTo(zeros, cols)
             IN  Tensor([r \in 1..Len(wdata) |-> Tensor([j \in 1..cols |->
                     RMul(RInt(wdata[r][j] - zs[r][j]), sc[r][j])])])
        ELSE Tensor([r \in 1..Len(wdata) |-> Tensor([j \in 1..cols |->
                     RMul(RInt(wdata[r][j]), sc[r][j])])])

-----------------------------------------------------------------------------
(* Idle values of each component's variables.                              *)

QIdle ==
    /\ qcfg = [w_bit |-> 4, group_size |-> 2, zero_point |-> TRUE]
    /\ qw = <<>>
    /\ qres = <<>>
    /\ qdeq = <<>>
    /\ qpc = "idle"

ClipIdle ==
    /\ ccfg = [w_bit |-> 4, group_size |-> 2, zero_point |-> TRUE]
    /\ cw = <<>>
    /\ cfeat = <<>>
    /\ c_ib = 0
    /\ c_is = 0
    /\ c_best = <<>>
    /\ c_minerr = <<>>
    /\ c_all = <<>>
    /\ cpc = "idle"

ScaleIdle ==
    /\ sdev = [device |-> "cpu", dtype |-> "float16", duo_scaling |-> TRUE]
    /\ x_mean = <<>>
    /\ w_mean = <<>>
    /\ loss_of = <<>>
    /\ store = <<>>
    /\ param = <<>>
    /\ org_sd = <<>>
    /\ ratio_i = 0
    /\ s_scales = <<>>
    /\ history = <<>>
    /\ best_error = <<"inf", 0>>
    /\ best_ratio = -1
    /\ best_scales = <<>>
    /\ logged = <<>>
    /\ ret_scales = <<>>
    /\ spc = "idle"

PipeIdle ==
    /\ pcfg = [version |-> "gemm", apply_clip |-> TRUE, export_compatible |-> FALSE]
    /\ p_w = <<>>
    /\ p_i = 0
    /\ p_j = 0
    /\ ppc = "idle"
    /\ p_groups = <<>>
    /\ p_g = 0
    /\ p_inps = <<>>
    /\ p_log = <<>>
    /\ p_pack = <<>>

SearchIdle ==
    /\ w_abs = <<>>
    /\ kw_cache = FALSE
    /\ call_no = 0
    /\ first_ret = <<>>

LossIdle ==
    /\ l_a = <<>>
    /\ l_b = <<>>
    /\ l_mem = 0
    /\ l_esz = 0
    /\ l_chunks = <<>>
    /\ l_k = 0
    /\ l_loss = 0
    /\ l_seen = <<>>
    /\ l_ret = <<>>
    /\ lpc = "idle"

InitIdle ==
    /\ i_env = <<>>
    /\ i_first = "layer"
    /\ i_inps = <<>>
    /\ i_mask = <<>>
    /\ i_kwargs = {}
    /\ i_exc = <<>>
    /\ i_supp = "none"
    /\ ipc = "idle"

FeatIdle ==
    /\ f_env = <<>>
    /\ f_hooks = <<>>
    /\ f_handles = <<>>
    /\ f_feat = <<>>
    /\ f_ret = <<>>
    /\ f_later = 0
    /\ fpc = "idle"

GroupIdle ==
    /\ g_size = 0
    /\ g_shape = <<>>
    /\ g_pq = <<>>
    /\ g_wm = <<>>
    /\ g_clip = <<>>

FwdIdle ==
    /\ m_env = <<>>
    /\ m_x = <<>>
    /\ m_parts = <<>>
    /\ m_calls = <<>>
    /\ m_out = <<>>
    /\ m_ret = <<>>
    /\ mpc = "idle"

SanIdle ==
    /\ k_sig = <<>>
    /\ k_in = <<>>
    /\ k_given = <<>>
    /\ k_out = <<>>
    /\ kpc = "idle"

XMeanIdle ==
    /\ a_inp = <<>>
    /\ a_mem = 0
    /\ a_esz = 0
    /\ a_i = 0
    /\ a_sum = <<>>
    /\ a_seen = <<>>
    /\ a_ret = <<>>
    /\ apc = "idle"

\* the other components are idle, for each component
QRestIdle == ClipIdle /\ ScaleIdle /\ PipeIdle /\ SearchIdle /\ LossIdle /\ InitIdle /\ FeatIdle /\ GroupIdle /\ FwdIdle /\ SanIdle /\ XMeanIdle

ClipRestIdle == QIdle /\ ScaleIdle /\ PipeIdle /\ SearchIdle /\ LossIdle /\ InitIdle /\ FeatIdle /\ GroupIdle /\ FwdIdle /\ SanIdle /\ XMeanIdle

ScaleRestIdle == QIdle /\ ClipIdle /\ PipeIdle /\ LossIdle /\ InitIdle /\ FeatIdle /\ GroupIdle /\ FwdIdle /\ SanIdle /\ XMeanIdle

PipeRestIdle == QIdle /\ ClipIdle /\ ScaleIdle /\ SearchIdle /\ LossIdle /\ InitIdle /\ FeatIdle /\ GroupIdle /\ FwdIdle /\ SanIdle /\ XMeanIdle

LossRestIdle == QIdle /\ ClipIdle /\ ScaleIdle /\ PipeIdle /\ SearchIdle /\ InitIdle /\ FeatIdle /\ GroupIdle /\ FwdIdle /\ SanIdle /\ XMeanIdle

InitRestIdle == QIdle /\ ClipIdle /\ ScaleIdle /\ PipeIdle /\ SearchIdle /\ LossIdle /\ FeatIdle /\ GroupIdle /\ FwdIdle /\ SanIdle /\ XMeanIdle

FeatRestIdle == QIdle /\ ClipIdle /\ ScaleIdle /\ PipeIdle /\ SearchIdle /\ LossIdle /\ InitIdle /\ GroupIdle /\ FwdIdle /\ SanIdle /\ XMeanIdle

GroupRestIdle == QIdle /\ ClipIdle /\ ScaleIdle /\ PipeIdle /\ SearchIdle /\ LossIdle /\ InitIdle /\ FeatIdle /\ FwdIdle /\ SanIdle /\ XMeanIdle

FwdRestIdle == QIdle /\ ClipIdle /\ ScaleIdle /\ PipeIdle /\ SearchIdle /\ LossIdle /\ InitIdle /\ FeatIdle /\ GroupIdle /\ SanIdle /\ XMeanIdle

SanRestIdle == QIdle /\ ClipIdle /\ ScaleIdle /\ PipeIdle /\ SearchIdle /\ LossIdle /\ InitIdle /\ FeatIdle /\ GroupIdle /\ FwdIdle /\ XMeanIdle

XMeanRestIdle == QIdle /\ ClipIdle /\ ScaleIdle /\ PipeIdle /\ SearchIdle /\ LossIdle /\ InitIdle /\ FeatIdle /\ GroupIdle /\ FwdIdle /\ SanIdle

-----------------------------------------------------------------------------
(* The quantizer alone: every input of a bounded family, quantized and     *)
(* then dequantized.                                                       *)

\* weights are the integers -MaxW..MaxW
MaxW == 2

QVals == {RInt(v) : v \in -MaxW..MaxW}

\* the rows of the documented examples
ExampleRows ==
    { <<RInt(1), RInt(2), RInt(3), RInt(100)>>,
      <<RInt(-5), RInt(3), RInt(127)>> }

QRowLen == {2, 4}

QRows == UNION {[1..n -> QVals] : n \in QRowLen} \cup ExampleRows

QBits == {2, 4, 8}

QGroupSizes == {-1, 0, 2, 3}

QInit ==
    /\ qcfg \in [w_bit : QBits, group_size : QGroupSizes, zero_point : BOOLEAN]
    /\ qw \in {<<r>> : r \in QRows} \cup {<<r1, r2>> : r1, r2 \in [1..2 -> QVals]}
    /\ qres = <<>>
    /\ qdeq = <<>>
    /\ qpc = "start"
    /\ QRestIdle

Quantize ==
    /\ qpc = "start"
    /\ IF QuantShapeOk(qcfg, qw)
       THEN /\ qres' = pseudo_quantize_tensor(qcfg, qw)
            /\ qpc' = "quantized"
       ELSE /\ qres' = qres
            /\ qpc' = "AssertionError"
    /\ UNCHANGED <<qcfg, qw, qdeq, q_rest>>

\* the diagnostic reconstruction from the integer codes
Dequantize ==
    /\ qpc = "quantized"
    /\ qdeq' = pseudo_dequantize_tensor(qcfg, qres.codes, qres.scales, qres.zeros)
    /\ qpc' = "dequantized"
    /\ UNCHANGED <<qcfg, qw, qres, q_rest>>

QNext == Quantize \/ Dequantize

SpecQ == QInit /\ [][QNext]_vars

-----------------------------------------------------------------------------
(* Properties of the quantizer (checked under SpecQ).                      *)

QDone == qpc \in {"quantized", "dequantized"}

\* the length of a quantization group of the row that was quantized
QGroupLen == IF qcfg.group_size > 0 THEN qcfg.group_size ELSE Len(qw[1])

\* the group (column of scales / zeros) element j of a row belongs to
QGroupOf(j) == ((j - 1) \div QGroupLen) + 1

\* C3: every integer code lies in [0, 2^w_bit - 1] in zero-point mode and in
\* [-2^(w_bit-1), 2^(w_bit-1) - 1] in symmetric mode, and every zero offset
\* lies in [0, 2^w_bit - 1].
C3_CodesInRange ==
    QDone =>
        /\ \A r \in 1..Len(qres.codes) : \A j \in 1..Len(qres.codes[r]) :
              IF qcfg.zero_point
              THEN qres.codes[r][j] \in 0..(2 ^ qcfg.w_bit - 1)
              ELSE qres.codes[r][j] \in
                      (-(2 ^ (qcfg.w_bit - 1)))..(2 ^ (qcfg.w_bit - 1) - 1)
        /\ qcfg.zero_point =>
              \A r \in 1..Len(qres.zeros) : \A k \in 1..Len(qres.zeros[r]) :
                  qres.zeros[r][k] \in 0..(2 ^ qcfg.w_bit - 1)

\* C3 witness: an all-positive group in zero-point mode, where the clamp cuts
\* both the zero offset and a code.
C3_Witness ==
    /\ qpc = "quantized"
    /\ qcfg.zero_point /\ qcfg.w_bit = 2 /\ qcfg.group_size = 2
    /\ qw = <<<<RInt(1), RInt(2)>>>>
    /\ qres.codes = <<<<3, 3>>>>
    /\ qres.zeros = <<<<0>>>>

\* C4: every element of the quantized-then-dequantized matrix differs from
\* the original element by at most half the scale of the element's group.
C4_RoundingBound ==
    QDone =>
        \A r \in 1..Len(qw) : \A j \in 1..Len(qw[r]) :
            RLe(RAbs(RSub(qres.w[r][j], qw[r][j])),
                RDiv(qres.scales[r][QGroupOf(j)], RInt(2)))

\* the largest |w| of group k of the quantized row
C5_AbsMax(r, k) ==
    Amax(Tensor([i \in 1..QGroupLen |-> RAbs(qw[r][(k - 1) * QGroupLen + i])]))

\* C5: in symmetric mode, with max_int = 2^(w_bit-1)-1 and
\* min_int = -max_int-1, the scale of a group is max(|W|) (floored at 1e-5)
\* over max_int, a code is round(W/scale) clamped to [min_int, max_int], the
\* dequantized value is code*scale and no zero offset is returned; for
\* w_bit=8 the row [-5, 3, 127] has scale 1 and codes [-5, 3, 127].
C5_Symmetric ==
    (QDone /\ ~qcfg.zero_point) =>
        LET mx == 2 ^ (qcfg.w_bit - 1) - 1
            mn == -mx - 1
        IN  /\ ~qres.hasZeros /\ qres.zeros = <<>>
            /\ \A r \in 1..Len(qw) : \A j \in 1..Len(qw[r]) :
                  LET sc == RDiv(RMax2(C5_AbsMax(r, QGroupOf(j)), <<1, 100000>>),
                                 RInt(mx))
                      cd == ClampInt(RRound(RDiv(qw[r][j], sc)), mn, mx)
                  IN  /\ qres.scales[r][QGroupOf(j)] = sc
                      /\ qres.codes[r][j] = cd
                      /\ qres.w[r][j] = RMul(RInt(cd), sc)
            /\ (qcfg.w_bit = 8 /\ qcfg.group_size <= 0
                  /\ qw = <<<<RInt(-5), RInt(3), RInt(127)>>>>) =>
                  /\ qres.scales = <<<<RInt(1)>>>>
                  /\ qres.codes = <<<<-5, 3, 127>>>>

\* C5 witness: the documented 8-bit row, quantized as one group.
C5_Witness ==
    /\ qpc = "quantized"
    /\ ~qcfg.zero_point /\ qcfg.w_bit = 8 /\ qcfg.group_size <= 0
    /\ qw = <<<<RInt(-5), RInt(3), RInt(127)>>>>
    /\ qres.codes = <<<<-5, 3, 127>>>>

\* C6: pseudo_dequantize_tensor reconstructs element (r, j) with the scale
\* (and zero offset) of group j div group_size of row r.
C6_DequantByGroup ==
    qpc = "dequantized" =>
        \A r \in 1..Len(qdeq) : \A j \in 1..Len(qdeq[r]) :
            qdeq[r][j] =
                IF qcfg.zero_point
                THEN RMul(RInt(qres.codes[r][j] - qres.zeros[r][QGroupOf(j)]),
                          qres.scales[r][QGroupOf(j)])
                ELSE RMul(RInt(qres.codes[r][j]), qres.scales[r][QGroupOf(j)])

-----------------------------------------------------------------------------
(* _compute_best_clip                                                      *)

\* n_grid, max_shrink = 0.5 and n_sample_token, the defaults of the method
clip_n_grid == 20

max_shrink == <<1, 2>>

n_sample_token == 512

\* the two block sizes of the output channels
OcBatchLarge == 256

OcBatchSmall == 64

\* the initial value of min_errs, 1e9
MinErrInit == 1000000000

ClipGroupSize(cfg, ci) == IF cfg.group_size > 0 THEN cfg.group_size ELSE ci

oc_batch_size(co) == IF co % OcBatchLarge = 0 THEN OcBatchLarge ELSE OcBatchSmall

\* int(max_shrink * n_grid)
ClipSteps == (max_shrink[1] * clip_n_grid) \div max_shrink[2]

\* input_feat[:, ::step_size] with step_size = max(1, n_token // n_sample_token)
SampleTokens(feat) ==
    LET step == IF Len(feat) \div n_sample_token > 1
                THEN Len(feat) \div n_sample_token ELSE 1
        n    == (Len(feat) + step - 1) \div step
    IN  Tensor([t \in 1..n |-> feat[(t - 1) * step + 1]])

\* org_max_val of one channel: per group, the largest |w|
OrgMaxRow(row, gs) ==
    LET groups == Reshape(row, gs)
    IN  Tensor([g \in 1..Len(groups) |->
                   Amax(Tensor([k \in 1..gs |-> RAbs(groups[g][k])]))])

\* org_max_val * (i_s / n_grid), per group
MaxValRowShrink(row, gs, is) ==
    LET om == OrgMaxRow(row, gs)
    IN  Tensor([g \in 1..Len(om) |-> RMul(om[g], Rat(is, clip_n_grid))])

\* max_val = org_max_val * (1 - i_s / n_grid), per group
MaxValRow(row, gs, is) ==
    LET om == OrgMaxRow(row, gs)
    IN  Tensor([g \in 1..Len(om) |-> RMul(om[g], Rat(clip_n_grid - is, clip_n_grid))])

\* cur_w = torch.clamp(w, -max_val, max_val) of one channel
ClampRow(row, gs, mv) ==
    Tensor([j \in 1..Len(row) |->
        RClamp(row[j], RNeg(mv[((j - 1) \div gs) + 1]), mv[((j - 1) \div gs) + 1])])

RECURSIVE RSum(_)
RSum(s) == IF s = <<>> THEN RInt(0) ELSE RAdd(s[1], RSum(Tail(s)))

\* (input_feat * w).sum(dim=-1) of one channel: per token, per group
OutRow(feat, row, gs) ==
    Tensor([t \in 1..Len(feat) |->
        Tensor([g \in 1..(Len(row) \div gs) |->
            RSum(Tensor([k \in 1..gs |->
                RMul(feat[t][(g - 1) * gs + k], row[(g - 1) * gs + k])]))])])

\* err = (cur_out - org_out).pow(2).mean(dim=1) of one channel, per group,
\* for the weights clamped to mv and pseudo-quantized
ErrRow(cfg, feat, row, gs, mv) ==
    LET q_w     == pseudo_quantize_tensor(cfg, <<ClampRow(row, gs, mv)>>).w[1]
        cur_out == OutRow(feat, q_w, gs)
        org_out == OutRow(feat, row, gs)
    IN  Tensor([g \in 1..(Len(row) \div gs) |->
            RDiv(RSum(Tensor([t \in 1..Len(feat) |->
                     LET d == RSub(cur_out[t][g], org_out[t][g]) IN RMul(d, d)])),
                 RInt(Len(feat)))])

\* err < min_errs, where min_errs is still 1e9 ("init") or an error seen
ErrLess(err, m) ==
    IF m = "init" THEN (err[1] \div err[2]) < MinErrInit ELSE RLt(err, m)

\* the comparison the other way round
ErrGreater(err, m) == IF m = "init" THEN TRUE ELSE RLt(m, err)

\* cur_best_idx = err < min_errs
cur_best_idx(err, m) == ErrLess(err, m)

\* one shrink step on one channel: <<best_max_val, min_errs>> after it
TrialRow(cfg, feat, row, gs, is, best, minerr) ==
    LET mv  == MaxValRow(row, gs, is)
        err == ErrRow(cfg, feat, row, gs, mv)
    IN  << Tensor([g \in 1..Len(mv) |->
                      IF cur_best_idx(err[g], minerr[g]) THEN mv[g] ELSE best[g]]),
           Tensor([g \in 1..Len(mv) |->
                      IF cur_best_idx(err[g], minerr[g]) THEN err[g] ELSE minerr[g]]) >>

\* the channels of block ib
BlockRows(w, ib) ==
    Tensor([r \in 1..oc_batch_size(Len(w)) |-> w[ib * oc_batch_size(Len(w)) + r]])

-----------------------------------------------------------------------------
(* The clip search alone.                                                  *)

\* channel patterns: the weight matrix repeats one of these lists of rows
ClipPatterns ==
    { << <<RInt(-1), RInt(2), RInt(3), RInt(-2)>> >>,
      << <<RInt(-1), RInt(2), RInt(3), RInt(-2)>>, <<RInt(0), RInt(0), RInt(1), RInt(-3)>> >>,
      << <<RInt(2), RInt(-2), RInt(-1), RInt(1)>>, <<RInt(-3), RInt(1), RInt(0), RInt(0)>>,
         <<RInt(1), RInt(-1), RInt(-2), RInt(3)>> >> }

ClipChannels == {32, 64, 128, 256}

ClipFeats ==
    { << <<RInt(1), RInt(1), RInt(1), RInt(1)>> >>,
      << <<RInt(1), RInt(0), RInt(-1), RInt(2)>> >>,
      << <<RInt(1), RInt(2), RInt(0), RInt(1)>>, <<RInt(-1), RInt(1), RInt(2), RInt(0)>> >>,
      << <<RInt(0), RInt(0), RInt(0), RInt(0)>> >> }

ClipBits == {2, 3}

ClipGroupSizes == {0, 2, 4}

PatternMatrix(pat, co) == Tensor([r \in 1..co |-> pat[((r - 1) % Len(pat)) + 1]])

ClipInit ==
    /\ ccfg \in [w_bit : ClipBits, group_size : ClipGroupSizes, zero_point : BOOLEAN]
    /\ cw \in {PatternMatrix(pat, co) : pat \in ClipPatterns, co \in ClipChannels}
    /\ cfeat \in ClipFeats
    /\ c_ib = 0
    /\ c_is = 0
    /\ c_best = <<>>
    /\ c_minerr = <<>>
    /\ c_all = <<>>
    /\ cpc = "start"
    /\ ClipRestIdle

\* the reshapes and the assert on the number of output channels
ClipStart ==
    /\ cpc = "start"
    /\ cfeat' = SampleTokens(cfeat)
    /\ cpc' = IF Len(cw) % oc_batch_size(Len(cw)) = 0 THEN "block" ELSE "AssertionError"
    /\ UNCHANGED <<ccfg, cw, c_ib, c_is, c_best, c_minerr, c_all, c_rest>>

\* the head of one pass of the loop over blocks, or the return after the last
ClipBlock ==
    /\ cpc = "block"
    /\ IF c_ib < Len(cw) \div oc_batch_size(Len(cw))
       THEN \E rows \in {BlockRows(cw, c_ib)} :
            \E om \in {Table([row \in {rows[r] : r \in 1..Len(rows)} |->
                          OrgMaxRow(row, ClipGroupSize(ccfg, Len(cw[1])))])} :
                /\ c_best' = Tensor([r \in 1..Len(rows) |-> om[rows[r]]])
                /\ c_minerr' = Tensor([r \in 1..Len(rows) |->
                                   Tensor([g \in 1..Len(om[rows[r]]) |-> "init"])])
                /\ c_is' = 0
                /\ cpc' = "trial"
                /\ UNCHANGED c_all
       ELSE /\ cpc' = "returned"
            /\ UNCHANGED <<c_is, c_best, c_minerr, c_all>>
    /\ UNCHANGED <<ccfg, cw, cfeat, c_ib, c_rest>>

\* the shrink step i_s on every channel of the block: one row of the result
\* per distinct (channel weights, best_max_val, min_errs)
TrialTable(cfg, feat, rows, gs, is, best, minerr) ==
    Table([k \in {<<rows[r], best[r], minerr[r]>> : r \in 1..Len(rows)} |->
              TrialRow(cfg, feat, k[1], gs, is, k[2], k[3])])

\* one shrink step of the block; pseudo_quantize_tensor asserts w.dim() == 2,
\* which the 4-D cur_w only meets after the reshape of group_size > 0
ClipTrial ==
    /\ cpc = "trial"
    /\ c_is < ClipSteps
    /\ IF ccfg.group_size > 0
       THEN \E rows \in {BlockRows(cw, c_ib)} :
            \E step \in {TrialTable(ccfg, cfeat, rows, ClipGroupSize(ccfg, Len(cw[1])),
                                    c_is, c_best, c_minerr)} :
                /\ c_best' = Tensor([r \in 1..Len(rows) |->
                                 step[<<rows[r], c_best[r], c_minerr[r]>>][1]])
                /\ c_minerr' = Tensor([r \in 1..Len(rows) |->
                                   step[<<rows[r], c_best[r], c_minerr[r]>>][2]])
                /\ c_is' = c_is + 1
                /\ cpc' = cpc
       ELSE /\ cpc' = "AssertionError"
            /\ UNCHANGED <<c_is, c_best, c_minerr>>
    /\ UNCHANGED <<ccfg, cw, cfeat, c_ib, c_all, c_rest>>

\* best_max_val_all.append(best_max_val)
ClipBlockEnd ==
    /\ cpc = "trial"
    /\ c_is = ClipSteps
    /\ c_all' = c_all \o c_best
    /\ c_ib' = c_ib + 1
    /\ cpc' = "block"
    /\ UNCHANGED <<ccfg, cw, cfeat, c_is, c_best, c_minerr, c_rest>>

ClipNext == ClipStart \/ ClipBlock \/ ClipTrial \/ ClipBlockEnd

SpecClip == ClipInit /\ [][ClipNext]_vars

-----------------------------------------------------------------------------
(* Properties of the clip search (checked under SpecClip).                 *)

ClipGs == ClipGroupSize(ccfg, Len(cw[1]))

\* the error _compute_best_clip measures for a channel clamped to the
\* per-group thresholds mv
ClipErr(row, mv) == ErrRow(ccfg, cfeat, row, ClipGs, mv)

\* the distinct (channel weights, thresholds) pairs of the returned tensor
ClipReturned == {<<cw[r], c_all[r]>> : r \in 1..Len(c_all)}

\* the distinct (channel weights, best_max_val, min_errs) of the block in hand
ClipRunning ==
    {<<cw[c_ib * oc_batch_size(Len(cw)) + r], c_best[r], c_minerr[r]>> :
        r \in 1..Len(c_best)}

\* C7: for every channel and group the returned threshold's measured error is
\* no greater than the error measured for the unclipped baseline (shrink 0);
\* while a block is searched, min_errs is the error of best_max_val, no
\* error tried so far is smaller, and a tried threshold with that same error
\* is never larger than best_max_val (only a strictly smaller error replaces
\* the running best).
C7_ClipNeverWorse ==
    /\ cpc = "returned" =>
          \A p \in ClipReturned : \A g \in 1..Len(p[2]) :
              RLe(ClipErr(p[1], p[2])[g],
                  ClipErr(p[1], OrgMaxRow(p[1], ClipGs))[g])
    /\ (cpc = "trial" /\ c_is > 0) =>
          \A p \in ClipRunning : \A g \in 1..Len(p[2]) :
              /\ p[3][g] # "init"
              /\ p[3][g] = ClipErr(p[1], p[2])[g]
              /\ \A i \in 0..(c_is - 1) :
                    \E e \in {ClipErr(p[1], MaxValRow(p[1], ClipGs, i))[g]} :
                        /\ RLe(p[3][g], e)
                        /\ e = p[3][g] =>
                              RLe(MaxValRow(p[1], ClipGs, i)[g], p[2][g])

\* C7 witness: the search returned, one channel keeps its unclipped maximum
\* and another is clipped to a smaller threshold with a strictly smaller error.
C7_Witness ==
    /\ cpc = "returned"
    /\ \E p \in ClipReturned : \E g \in 1..Len(p[2]) :
          /\ p[2][g] # OrgMaxRow(p[1], ClipGs)[g]
          /\ RLt(ClipErr(p[1], p[2])[g], ClipErr(p[1], OrgMaxRow(p[1], ClipGs))[g])
    /\ \E p \in ClipReturned : \E g \in 1..Len(p[2]) :
          /\ p[2][g] = OrgMaxRow(p[1], ClipGs)[g]
          /\ p[2][g] # RInt(0)

\* C26: for every weight matrix _compute_best_clip runs to its return; the
\* blocks have 256 channels if 256 divides the channel count and 64 otherwise,
\* every channel lies in exactly one block, and the returned tensor has one
\* row per output channel, in the order of the channels, with one threshold
\* per group.
C26_OneBlockPerChannel ==
    /\ cpc # "AssertionError"
    /\ cpc \in {"block", "trial", "returned"} =>
          /\ oc_batch_size(Len(cw)) =
                 (IF Len(cw) % 256 = 0 THEN 256 ELSE 64)
          /\ Len(c_all) = c_ib * oc_batch_size(Len(cw))
          /\ \A r \in DOMAIN c_all : Len(c_all[r]) = Len(cw[r]) \div ClipGs
    /\ cpc = "trial" => Len(c_best) = oc_batch_size(Len(cw))
    /\ cpc = "returned" =>
          /\ Len(c_all) = Len(cw)
          /\ \A p \in ClipReturned : \A g \in 1..Len(p[2]) :
                RLe(p[2][g], OrgMaxRow(p[1], ClipGs)[g])

\* the thresholds the grid can give for group g of a channel
GridThresholds(row, g) ==
    {MaxValRow(row, ClipGs, i)[g] : i \in 0..(ClipSteps - 1)}

\* C27: every threshold of the returned tensor, and every running best, is
\* org_max * (1 - i / 20) for an i in 0..9, with org_max the largest absolute
\* weight of the group of that channel: it is not negative, not above org_max
\* and not below 0.55 * org_max.
C27_ThresholdOnGrid ==
    /\ cpc = "returned" =>
          \A p \in ClipReturned : \A g \in 1..Len(p[2]) :
              /\ p[2][g] \in GridThresholds(p[1], g)
              /\ RLe(RInt(0), p[2][g])
              /\ RLe(p[2][g], OrgMaxRow(p[1], ClipGs)[g])
              /\ RLe(RMul(Rat(55, 100), OrgMaxRow(p[1], ClipGs)[g]), p[2][g])
    /\ cpc = "trial" =>
          \A p \in ClipRunning : \A g \in 1..Len(p[2]) :
              p[2][g] \in GridThresholds(p[1], g)

\* the search returned a threshold at the end of the grid, 0.55 * org_max,
\* and another that is the unclipped org_max
C27_Witness ==
    /\ cpc = "returned"
    /\ \E p \in ClipReturned : \E g \in 1..Len(p[2]) :
          /\ p[2][g] = MaxValRow(p[1], ClipGs, ClipSteps - 1)[g]
          /\ p[2][g] # RInt(0)
    /\ \E p \in ClipReturned : \E g \in 1..Len(p[2]) :
          /\ p[2][g] = OrgMaxRow(p[1], ClipGs)[g]
          /\ p[2][g] # RInt(0)

-----------------------------------------------------------------------------
(* Floating point values of the scale search.                              *)
(*                                                                         *)
(* The scale search only multiplies, divides, raises to the powers k/20    *)
(* and takes square roots of non-negative numbers, so a value is kept by   *)
(* its logarithm: <<"fin", e>> is 10^(e / Decade), and <<"zero", 0>>,      *)
(* <<"inf", 0>>, <<"nan", 0>> are 0, +inf and NaN.  A result outside the   *)
(* range of the dtype becomes inf (overflow) or 0 (underflow).             *)

n_grid == 20

\* e is a multiple of Decade for whole powers of ten, so that the powers
\* k / n_grid and the square root of a product stay on the lattice
Decade == 2 * n_grid

Fin(e) == <<"fin", e>>

FZero == <<"zero", 0>>

FInf == <<"inf", 0>>

FNaN == <<"nan", 0>>

FOne == Fin(0)

IsFin(a) == a[1] = "fin"

IsZero(a) == a[1] = "zero"

IsInf(a) == a[1] = "inf"

IsNaN(a) == a[1] = "nan"

\* the largest finite value: 65504 for float16, 3.4e38 for float32
MaxExp(dt) ==
    IF dt = "float16" THEN (Decade * 4816) \div 1000 ELSE (Decade * 38531) \div 1000

\* what is smaller than half the smallest subnormal rounds to 0:
\* 2^-25 for float16, 2^-150 for float32
MinExp(dt) ==
    IF dt = "float16" THEN -((Decade * 7526) \div 1000)
    ELSE -((Decade * 45154) \div 1000)

\* dt = "real" is arithmetic without a range
FRound(dt, e) ==
    IF dt = "real" THEN Fin(e)
    ELSE IF e > MaxExp(dt) THEN FInf
    ELSE IF e < MinExp(dt) THEN FZero
    ELSE Fin(e)

FMul(dt, a, b) ==
    IF IsNaN(a) \/ IsNaN(b) THEN FNaN
    ELSE IF (IsZero(a) /\ IsInf(b)) \/ (IsInf(a) /\ IsZero(b)) THEN FNaN
    ELSE IF IsZero(a) \/ IsZero(b) THEN FZero
    ELSE IF IsInf(a) \/ IsInf(b) THEN FInf
    ELSE FRound(dt, a[2] + b[2])

FDiv(dt, a, b) ==
    IF IsNaN(a) \/ IsNaN(b) THEN FNaN
    ELSE IF (IsZero(a) /\ IsZero(b)) \/ (IsInf(a) /\ IsInf(b)) THEN FNaN
    ELSE IF IsZero(a) \/ IsInf(b) THEN FZero
    ELSE IF IsInf(a) \/ IsZero(b) THEN FInf
    ELSE FRound(dt, a[2] - b[2])

\* a.pow(k / n_grid); pow(a, 0) is 1 for every a, NaN included
FPow(dt, a, k) ==
    IF k = 0 THEN FOne
    ELSE IF IsFin(a) THEN FRound(dt, (a[2] * k) \div n_grid)
    ELSE a

FSqrt(a) == IF IsFin(a) THEN Fin(a[2] \div 2) ELSE a

\* 1e-4
EpsExp == -(4 * Decade)

Eps4 == Fin(EpsExp)

\* round(Decade * log10(1 + 10^(-d / Decade))) for d = 0, 1, ...: what adding
\* a number 10^(d / Decade) times smaller does to the logarithm
LogAdd ==
    <<12, 12, 11, 11, 10, 10, 9, 9, 8, 8, 8, 7, 7, 7, 6, 6, 6, 6, 5, 5, 5, 5,
      4, 4, 4, 4, 4, 3, 3, 3, 3, 3, 3, 2, 2, 2, 2, 2, 2, 2, 2, 2,
      1, 1, 1, 1, 1, 1, 1, 1, 1, 1, 1, 1, 1, 1, 1, 1, 1, 1, 1, 1>>

\* a + 1e-4
FAddEps(dt, a) ==
    IF IsZero(a) THEN Eps4
    ELSE IF ~IsFin(a) THEN a
    ELSE LET d == Abs(a[2] - EpsExp)
             hi == IF a[2] > EpsExp THEN a[2] ELSE EpsExp
         IN  IF d >= Len(LogAdd) THEN Fin(hi) ELSE FRound(dt, hi + LogAdd[d + 1])

\* a.clamp(min=1e-4); clamp keeps NaN
FClampMin(a) ==
    IF IsNaN(a) \/ IsInf(a) THEN a
    ELSE IF IsZero(a) THEN Eps4
    ELSE IF a[2] < EpsExp THEN Eps4
    ELSE a

\* a <= b for values that are not NaN
FLe(a, b) ==
    \/ IsZero(a)
    \/ IsInf(b)
    \/ IsFin(a) /\ IsFin(b) /\ a[2] <= b[2]

\* tensor.max() and tensor.min(): NaN if an entry is NaN
FMax(v) ==
    IF \E j \in DOMAIN v : IsNaN(v[j]) THEN FNaN
    ELSE CHOOSE m \in {v[j] : j \in DOMAIN v} : \A j \in DOMAIN v : FLe(v[j], m)

FMin(v) ==
    IF \E j \in DOMAIN v : IsNaN(v[j]) THEN FNaN
    ELSE CHOOSE m \in {v[j] : j \in DOMAIN v} : \A j \in DOMAIN v : FLe(m, v[j])

-----------------------------------------------------------------------------
(* _compute_best_scale                                                     *)

\* x_mean.pow(ratio) / (w_mean.pow(1 - ratio) + 1e-4), or x_mean.pow(ratio),
\* clamped from below; ratio is k / n_grid
RawScales(cfg, xm, wm, k) ==
    Tensor([j \in DOMAIN xm |->
        IF cfg.duo_scaling
        THEN FClampMin(FDiv(cfg.dtype, FPow(cfg.dtype, xm[j], k),
                            FAddEps(cfg.dtype, FPow(cfg.dtype, wm[j], n_grid - k))))
        ELSE FClampMin(FPow(cfg.dtype, xm[j], k))])

\* division by max * min without the square root
NormalizeNoSqrt(dt, raw) ==
    LET n == FMul(dt, FMax(raw), FMin(raw))
    IN  Tensor([j \in DOMAIN raw |-> FDiv(dt, raw[j], n)])

\* scales / (scales.max() * scales.min()).sqrt()
NormalizeScales(dt, raw) ==
    LET n == FSqrt(FMul(dt, FMax(raw), FMin(raw)))
    IN  Tensor([j \in DOMAIN raw |-> FDiv(dt, raw[j], n)])

\* scales[isinf] = 1; scales[isnan] = 1.  scales_view shares the storage of
\* scales (x_mean is on the device already), so it sees the replacement.
ReplaceNonFinite(s) ==
    Tensor([j \in DOMAIN s |-> IF IsInf(s[j]) \/ IsNaN(s[j]) THEN FOne ELSE s[j]])

TrialScales(cfg, xm, wm, k) ==
    ReplaceNonFinite(NormalizeScales(cfg.dtype, RawScales(cfg, xm, wm, k)))

(* A weight tensor is kept by what was done to the original weight W:      *)
(* mult[j] is the factor on input channel j, q says whether the entries    *)
(* went through pseudo_quantize_tensor.  The entries of W times the scales *)
(* are taken to stay in the range of the dtype.                            *)

Ones(n) == Tensor([j \in 1..n |-> FOne])

OrigWeight(n) == [mult |-> Ones(n), q |-> FALSE]

NoTensor == [mult |-> <<>>, q |-> FALSE]

Slots == {"orig", "copy", "trial"}

\* fc.weight.mul_(scales_view), in the storage of the weight
MulInPlace(t, s) ==
    [t EXCEPT !.mult = Tensor([j \in DOMAIN s |-> FMul("real", t.mult[j], s[j])])]

\* pseudo_quantize_tensor asserts that its argument has no NaN
NoNaN(t) == \A j \in DOMAIN t.mult : ~IsNaN(t.mult[j])

\* pseudo_quantize_tensor(fc.weight.data)[0] / scales_view, a new tensor
QuantDiv(t, s) ==
    [mult |-> Tensor([j \in DOMAIN s |-> FDiv("real", t.mult[j], s[j])]),
     q |-> TRUE]

\* v.cpu() returns v itself when v is in host memory, a copy otherwise
CpuSlot(cfg, slot) == IF cfg.device = "cpu" THEN slot ELSE "copy"

Weight(l) == store[l][param[l]]

\* a loss is <<"fin", v>>, <<"inf", 0>> or <<"nan", 0>>
LossNaN == <<"nan", 0>>

LossInf == <<"inf", 0>>

LossFinite(loss) == loss[1] = "fin"

\* loss < best_error
LossLessOrNaN(loss, best) ==
    \/ loss[1] = "nan"
    \/ LossFinite(loss) /\ (best[1] = "inf" \/ (LossFinite(best) /\ loss[2] < best[2]))

\* loss <= best_error
LossLessOrEqual(loss, best) ==
    /\ LossFinite(loss)
    /\ best[1] = "inf" \/ (LossFinite(best) /\ loss[2] <= best[2])

LossLess(loss, best) ==
    /\ LossFinite(loss)
    /\ best[1] = "inf" \/ (LossFinite(best) /\ loss[2] < best[2])

WeightFinite(t) == \A j \in DOMAIN t.mult : IsFin(t.mult[j]) \/ IsZero(t.mult[j])

\* _module_forward and _compute_loss with the trial weights: NaN or inf in a
\* weight makes the loss NaN, otherwise the loss is what the data gives
TrialLoss(k) ==
    IF \A l \in DOMAIN store : WeightFinite(Weight(l)) THEN loss_of[k + 1]
    ELSE LossNaN

\* number of linears2scale
NLin == 2

\* x_mean is 0, 1, 10^MaxXDecade, inf or NaN; w_mean is 0, 10^-MaxWDecade or 1
MaxXDecade == 3

MaxWDecade == 1

Channels == {1, 2}

XFinite == {FZero, FOne, Fin(MaxXDecade * Decade)}

XVals == XFinite \cup {FInf, FNaN}

WVals == {FZero, Fin(-(MaxWDecade * Decade)), FOne}

\* the losses over the grid that the data may give
LossProfiles ==
    LET K == 0..(n_grid - 1)
        P(f) == Tensor([i \in 1..n_grid |-> f[i - 1]])
    IN  { P([k \in K |-> <<"fin", Abs(k - 7) + 1>>]),
          P([k \in K |-> <<"fin", 5>>]),
          P([k \in K |-> IF k = n_grid - 1 THEN <<"fin", 3>> ELSE LossNaN]),
          P([k \in K |-> IF k = 0 THEN LossNaN ELSE IF k = 1 THEN LossInf
                         ELSE <<"fin", k>>]),
          P([k \in K |-> LossNaN]),
          P([k \in K |-> IF k % 2 = 0 THEN LossNaN ELSE LossInf]) }

\* an activation that is not finite makes the reference output, and with it
\* every loss, not finite
ProfileFits(xm, prof) ==
    (\E j \in DOMAIN xm : ~(IsFin(xm[j]) \/ IsZero(xm[j])))
        => \A i \in DOMAIN prof : ~LossFinite(prof[i])

ScaleInit ==
    /\ sdev \in [device : {"cpu", "cuda"}, dtype : {"float16", "float32"},
                 duo_scaling : BOOLEAN]
    /\ x_mean \in [Channels -> XVals]
    /\ w_mean \in [Channels -> WVals]
    /\ loss_of \in LossProfiles
    /\ ProfileFits(x_mean, loss_of)
    /\ store = [l \in 1..NLin |->
                   [s \in Slots |-> IF s = "orig" THEN OrigWeight(Cardinality(Channels))
                                    ELSE NoTensor]]
    /\ param = [l \in 1..NLin |-> "orig"]
    /\ org_sd = <<>>
    /\ ratio_i = 0
    /\ s_scales = <<>>
    /\ history = <<>>
    /\ best_error = LossInf
    /\ best_ratio = -1
    /\ best_scales = <<>>
    /\ logged = <<>>
    /\ ret_scales = <<>>
    /\ spc = "start"
    /\ ScaleRestIdle
    /\ SearchIdle

\* org_sd = {k: v.cpu() ...}
SaveState ==
    /\ spc = "start"
    /\ org_sd' = [l \in DOMAIN store |-> CpuSlot(sdev, param[l])]
    /\ store' = [l \in DOMAIN store |->
                    IF CpuSlot(sdev, param[l]) = param[l] THEN store[l]
                    ELSE [store[l] EXCEPT !["copy"] = store[l][param[l]]]]
    /\ spc' = "grid"
    /\ UNCHANGED <<sdev, x_mean, w_mean, loss_of, param, ratio_i, s_scales, history,
                   best_error, best_ratio, best_scales, logged, ret_scales,
                   s_rest>>

\* the storage of the tensor that fc.weight.data = ... creates: one that
\* org_sd does not hold
NewSlot(l) == IF org_sd[l] = "trial" THEN "orig" ELSE "trial"

\* the first layer whose scaled weight fails the assert, 0 if none does
FirstNaN(mul) ==
    IF \A l \in DOMAIN mul : NoNaN(mul[l]) THEN 0
    ELSE CHOOSE l \in DOMAIN mul :
            /\ ~NoNaN(mul[l])
            /\ \A m \in DOMAIN mul : m < l => NoNaN(mul[m])

\* one trial up to the forward pass: the scales of the ratio, then layer by
\* layer fc.weight.mul_(scales_view) and fc.weight.data = Q(W * s) / s
TrialBegin ==
    /\ spc = "grid"
    /\ ratio_i < n_grid
    /\ \E s \in {TrialScales(sdev, x_mean, w_mean, ratio_i)} :
       \E mul \in {[l \in DOMAIN store |-> MulInPlace(Weight(l), s)]} :
       \E bad \in {FirstNaN(mul)} :
          /\ s_scales' = s
          /\ store' = [l \in DOMAIN store |->
                          IF bad = 0 \/ l < bad
                          THEN [[store[l] EXCEPT ![param[l]] = mul[l]]
                                   EXCEPT ![NewSlot(l)] = QuantDiv(mul[l], s)]
                          ELSE IF l = bad
                          THEN [store[l] EXCEPT ![param[l]] = mul[l]]
                          ELSE store[l]]
          /\ param' = [l \in DOMAIN store |->
                          IF bad = 0 \/ l < bad THEN NewSlot(l) ELSE param[l]]
          /\ spc' = IF bad = 0 THEN "forward" ELSE "AssertionError"
    /\ UNCHANGED <<sdev, x_mean, w_mean, loss_of, org_sd, ratio_i, history,
                   best_error, best_ratio, best_scales, logged, ret_scales,
                   s_rest>>

\* the forward pass, the loss, the best so far, load_state_dict(org_sd)
TrialEnd ==
    /\ spc = "forward"
    /\ \E loss \in {TrialLoss(ratio_i)} :
          /\ history' = Append(history, loss)
          /\ IF LossLess(loss, best_error)
             THEN /\ best_error' = loss
                  /\ best_ratio' = ratio_i
                  /\ best_scales' = s_scales
             ELSE UNCHANGED <<best_error, best_ratio, best_scales>>
    /\ store' = [l \in DOMAIN store |->
                    [store[l] EXCEPT ![param[l]] = store[l][org_sd[l]]]]
    /\ ratio_i' = ratio_i + 1
    /\ spc' = "grid"
    /\ UNCHANGED <<sdev, x_mean, w_mean, loss_of, param, org_sd, s_scales,
                   logged, ret_scales, s_rest>>

\* after the loop: log the history and raise, or return best_scales
SearchEnd ==
    /\ spc = "grid"
    /\ ratio_i = n_grid
    /\ IF best_ratio = -1
       THEN /\ logged' = history
            /\ spc' = "Exception"
            /\ UNCHANGED ret_scales
       ELSE IF \E j \in DOMAIN best_scales : IsNaN(best_scales[j])
       THEN /\ spc' = "AssertionError"
            /\ UNCHANGED <<logged, ret_scales>>
       ELSE /\ ret_scales' = best_scales
            /\ spc' = "returned"
            /\ UNCHANGED logged
    /\ UNCHANGED <<sdev, x_mean, w_mean, loss_of, store, param, org_sd, ratio_i,
                   s_scales, history, best_error, best_ratio, best_scales,
                   s_rest>>

ScaleNext == SaveState \/ TrialBegin \/ TrialEnd \/ SearchEnd

SpecScale == ScaleInit /\ [][ScaleNext]_vars

-----------------------------------------------------------------------------
(* Properties of the scale search.                                         *)

SearchOver == spc \in {"returned", "Exception"}

\* the product of the largest and the smallest entry, in exact arithmetic
MaxTimesMin(s) == FMul("real", FMax(s), FMin(s))

\* C1: after every trial of the grid search, and so when the search is over,
\* every layer of linears2scale holds exactly the weight it had before the
\* search, whatever the device and the duo_scaling setting.
C1_WeightsRestored ==
    ((spc = "grid" /\ ratio_i >= 1) \/ SearchOver)
        => \A l \in DOMAIN store : Weight(l) = OrigWeight(Cardinality(Channels))

C9_ScalesFinitePositive ==
    /\ spc = "forward" => \A j \in DOMAIN s_scales : IsFin(s_scales[j])
    /\ spc = "returned" => \A j \in DOMAIN ret_scales : IsFin(ret_scales[j])

\* C10: the search raises, after logging the history of all n_grid losses,
\* exactly when no ratio gave a finite loss; when some ratio gave a finite
\* loss it returns the scales of a ratio with a finite loss; there is no other
\* way out of the search.
C10_AbortIffNoFiniteLoss ==
    /\ spc = "Exception" =>
          /\ logged = history
          /\ Len(logged) = n_grid
          /\ \A i \in DOMAIN history : ~LossFinite(history[i])
    /\ spc = "returned" =>
          /\ Len(history) = n_grid
          /\ best_ratio \in 0..(n_grid - 1)
          /\ LossFinite(history[best_ratio + 1])
          /\ ret_scales = TrialScales(sdev, x_mean, w_mean, best_ratio)
    /\ (spc = "grid" /\ ratio_i = n_grid) =>
          (best_ratio = -1 <=> \A i \in DOMAIN history : ~LossFinite(history[i]))
    /\ spc # "AssertionError"

\* the search raised on a history that holds NaN and inf, with a finite x_mean
C10_Witness ==
    /\ spc = "Exception"
    /\ \E i \in DOMAIN logged : logged[i] = LossNaN
    /\ \E i \in DOMAIN logged : logged[i] = LossInf
    /\ \A j \in DOMAIN x_mean : IsFin(x_mean[j])

\* C29: the returned scale vector is the one of the ratio k / 20, k in 0..19,
\* whose loss is the lowest of the 20 losses of the history; of several ratios
\* with that loss the smallest is taken; a ratio whose loss is NaN (or inf) is
\* never taken.  The same holds for the best so far after every trial.
C29_LowestLossWins ==
    /\ (spc = "returned" \/ (spc = "grid" /\ best_ratio # -1)) =>
          /\ best_ratio \in 0..(n_grid - 1)
          /\ best_ratio < Len(history)
          /\ LossFinite(history[best_ratio + 1])
          /\ best_error = history[best_ratio + 1]
          /\ \A i \in DOMAIN history :
                LossFinite(history[i]) =>
                    /\ history[best_ratio + 1][2] <= history[i][2]
                    /\ history[i][2] = history[best_ratio + 1][2] => best_ratio + 1 <= i
          /\ best_scales = TrialScales(sdev, x_mean, w_mean, best_ratio)
    /\ spc = "returned" =>
          /\ Len(history) = n_grid
          /\ ret_scales = best_scales

\* the search returned the scales of ratio 2 / 20 after a NaN and an inf loss,
\* with larger finite losses behind it
C29_Witness ==
    /\ spc = "returned"
    /\ best_ratio = 2
    /\ history[1] = LossNaN
    /\ history[2] = LossInf
    /\ \A i \in 4..n_grid : LossFinite(history[i])

-----------------------------------------------------------------------------
(* quantize and _apply_quant                                               *)

Versions == {"gemm", "gemv", "marlin", "gemv_fast"}

\* number of modules of the model, number of named linears of a module
NModules == 2

NNamed == 2

\* what quantize has done to the weight of a linear
Untouched == [scaled |-> FALSE, clipped |-> FALSE, pq |-> FALSE, replaced |-> FALSE]

\* the end of the body of the loop of quantize, or of the loop of pack,
\* whose body is _apply_quant alone
NextModule(n) ==
    /\ p_i' = p_i + 1
    /\ p_g' = 0
    /\ IF p_pack.on
       THEN /\ p_j' = IF p_i = n THEN 0 ELSE 1
            /\ ppc' = IF p_i = n THEN "packed" ELSE "pq"
       ELSE /\ p_j' = 0
            /\ ppc' = IF p_i = n THEN "done" ELSE "capture"

\* the forward pass of _get_input_feat with the weights of afterwards
ForwardLate(i) ==
    [from |-> i, w |-> [j \in DOMAIN p_w[i] |-> [p_w[i][j] EXCEPT !.scaled = TRUE]]]

\* self.inps = self._module_forward(self.inps, layer, ...): the output of
\* module i with the weights it holds now
Forward(i) == [from |-> i, w |-> p_w[i]]

\* the clip search runs whatever self.apply_clip is
ClipAlways(cfg) == TRUE

\* if self.apply_clip
ClipEnabled(cfg) == cfg.apply_clip

\* scaling group g holds linear g
InGroup(i, j) == j <= p_groups[i]

\* _apply_quant runs in quantize whatever self.export_compatible is
QuantInline(cfg) == FALSE

\* if not self.export_compatible: the quantization is left to pack()
QuantDeferred(cfg) == cfg.export_compatible

PipeInit ==
    /\ pcfg \in [version : Versions \cup {"foo"}, apply_clip : BOOLEAN,
                 export_compatible : BOOLEAN, nan_at : 0..NModules]
    /\ \E n \in 1..NModules :
          /\ p_w = [i \in 1..n |-> [j \in 1..NNamed |-> Untouched]]
          /\ p_groups \in [1..n -> 0..NNamed]
    /\ p_i = 1
    /\ p_j = 0
    /\ p_g = 0
    /\ p_inps = [from |-> 0, w |-> <<>>]
    /\ p_log = <<>>
    /\ p_pack = [on |-> FALSE, log |-> <<>>]
    /\ ppc = "capture"
    /\ PipeRestIdle

\* step 1 of the loop body: the module and the inputs go to the device,
\* _get_input_feat runs the module on self.inps and keeps its output as the
\* input of the next module
QuantizeCapture ==
    /\ ppc = "capture"
    /\ p_inps' = Forward(p_i)
    /\ p_log' = Append(p_log, <<p_i, "capture">>)
    /\ ppc' = "search"
    /\ UNCHANGED <<pcfg, p_w, p_i, p_j, p_groups, p_g, p_pack, p_rest>>

\* step 2, the list comprehension: _search_best_scale of the next group. In
\* module pcfg.nan_at no ratio gives a finite loss, and _compute_best_scale
\* raises Exception.
QuantizeSearch ==
    /\ ppc = "search"
    /\ p_g < p_groups[p_i]
    /\ IF pcfg.nan_at = p_i
       THEN /\ ppc' = "Exception"
            /\ UNCHANGED <<p_g, p_log>>
       ELSE /\ p_g' = p_g + 1
            /\ p_log' = Append(p_log, <<p_i, "search">>)
            /\ UNCHANGED ppc
    /\ UNCHANGED <<pcfg, p_w, p_i, p_j, p_groups, p_inps, p_pack, p_rest>>

\* step 2, after the list comprehension: apply_scale with scales_list,
\* whatever its length
QuantizeApplyScale ==
    /\ ppc = "search"
    /\ p_g = p_groups[p_i]
    /\ p_w' = [p_w EXCEPT ![p_i] =
                  [j \in DOMAIN p_w[p_i] |->
                      IF InGroup(p_i, j) THEN [p_w[p_i][j] EXCEPT !.scaled = TRUE]
                      ELSE p_w[p_i][j]]]
    /\ p_log' = Append(p_log, <<p_i, "apply_scale">>)
    /\ ppc' = "clip"
    /\ UNCHANGED <<pcfg, p_i, p_j, p_groups, p_g, p_inps, p_pack, p_rest>>

\* step 3: _search_best_clip, if self.apply_clip
QuantizeClipSearch ==
    /\ ppc = "clip"
    /\ IF ClipEnabled(pcfg)
       THEN /\ p_log' = Append(p_log, <<p_i, "clip_search">>)
            /\ ppc' = "apply_clip"
       ELSE /\ ppc' = "quant"
            /\ UNCHANGED p_log
    /\ UNCHANGED <<pcfg, p_w, p_i, p_j, p_groups, p_g, p_inps, p_pack, p_rest>>

\* step 3: apply_clip with clip_list
QuantizeApplyClip ==
    /\ ppc = "apply_clip"
    /\ p_w' = [p_w EXCEPT ![p_i] =
                  [j \in DOMAIN p_w[p_i] |-> [p_w[p_i][j] EXCEPT !.clipped = TRUE]]]
    /\ p_log' = Append(p_log, <<p_i, "apply_clip">>)
    /\ ppc' = "quant"
    /\ UNCHANGED <<pcfg, p_i, p_j, p_groups, p_g, p_inps, p_pack, p_rest>>

\* step 4: _apply_quant unless self.export_compatible
QuantizeApplyQuant ==
    /\ ppc = "quant"
    /\ IF QuantDeferred(pcfg)
       THEN /\ NextModule(Len(p_w))
            /\ UNCHANGED p_log
       ELSE /\ p_j' = 1
            /\ ppc' = "pq"
            /\ p_log' = Append(p_log, <<p_i, "quant">>)
            /\ UNCHANGED <<p_i, p_g>>
    /\ UNCHANGED <<pcfg, p_w, p_groups, p_inps, p_pack, p_rest>>

\* _apply_quant, one linear: the weight becomes its pseudo-quantized value
ApplyQuantPseudoQuantize ==
    /\ ppc = "pq"
    /\ p_w' = [p_w EXCEPT ![p_i][p_j].pq = TRUE]
    /\ ppc' = "version"
    /\ UNCHANGED <<pcfg, p_i, p_j, p_groups, p_g, p_inps, p_log, p_pack, p_rest>>

\* _apply_quant, one linear: the branch on self.version, then from_linear and
\* set_op_by_name
ApplyQuantVersion ==
    /\ ppc = "version"
    /\ IF pcfg.version \in Versions
       THEN /\ p_w' = [p_w EXCEPT ![p_i][p_j].replaced = TRUE]
            /\ p_pack' = IF p_pack.on
                         THEN [p_pack EXCEPT !.log = Append(p_pack.log, <<p_i, p_j>>)]
                         ELSE p_pack
            /\ IF p_j < Len(p_w[p_i])
               THEN /\ p_j' = p_j + 1
                    /\ ppc' = "pq"
                    /\ UNCHANGED <<p_i, p_g>>
               ELSE NextModule(Len(p_w))
       ELSE /\ ppc' = "ValueError"
            /\ UNCHANGED <<p_w, p_i, p_j, p_g, p_pack>>
    /\ UNCHANGED <<pcfg, p_groups, p_inps, p_log, p_rest>>

\* pack(), called after a run of quantize with export_compatible: the loop
\* over the modules, each with its named linears handed to _apply_quant
Pack ==
    /\ ppc = "done"
    /\ pcfg.export_compatible
    /\ p_pack' = [on |-> TRUE, log |-> <<>>]
    /\ p_i' = 1
    /\ p_j' = 1
    /\ ppc' = "pq"
    /\ UNCHANGED <<pcfg, p_w, p_groups, p_g, p_inps, p_log, p_rest>>

PipeNext ==
    \/ QuantizeCapture
    \/ QuantizeSearch
    \/ QuantizeApplyScale
    \/ QuantizeClipSearch
    \/ QuantizeApplyClip
    \/ QuantizeApplyQuant
    \/ ApplyQuantPseudoQuantize
    \/ ApplyQuantVersion
    \/ Pack

SpecPipe == PipeInit /\ [][PipeNext]_vars

\* C2: when self.version is none of the known versions the run raises
\* ValueError, and when it is raised no weight of any linear has been changed:
\* no scale applied, no clip applied, no weight pseudo-quantized or replaced.
C2_NoWeightChangedOnError ==
    ppc = "ValueError" =>
        \A i \in DOMAIN p_w : \A j \in DOMAIN p_w[i] : p_w[i][j] = Untouched

-----------------------------------------------------------------------------
(* Properties of quantize.                                                 *)

IsCapture(e) == e[2] = "capture"

Captures == SelectSeq(p_log, IsCapture)

AllUntouched(w) == \A j \in DOMAIN w : w[j] = Untouched

\* C13: the modules are taken one at a time in increasing order, each once,
\* and the input of module i + 1 is the output of the forward pass that the
\* capture of module i ran, with the weights module i had before its scale,
\* clip and quantization.
C13_SequentialLayers ==
    /\ \A k \in DOMAIN Captures : Captures[k][1] = k
    /\ \A k \in DOMAIN p_log : k > 1 => p_log[k - 1][1] <= p_log[k][1]
    /\ ppc = "done" => Len(Captures) = Len(p_w)
    /\ ppc = "capture" =>
          /\ p_inps.from = p_i - 1
          /\ AllUntouched(p_inps.w)
          /\ Len(Captures) = p_i - 1
    /\ p_pack.on => Len(Captures) = Len(p_w) /\ p_inps.from = Len(p_w)
    /\ (ppc \notin {"capture", "done"} /\ ~p_pack.on) =>
          /\ p_inps.from = p_i
          /\ AllUntouched(p_inps.w)
          /\ Len(Captures) = p_i

\* module 2 is about to be captured on the output of module 1, whose weights
\* have been scaled and replaced since
C13_Witness ==
    /\ ppc = "capture"
    /\ p_i = 2
    /\ p_inps.from = 1
    /\ \A j \in DOMAIN p_w[1] : p_w[1][j].replaced
    /\ \E j \in DOMAIN p_w[1] : p_w[1][j].scaled

\* the stages of module i in their order
RECURSIVE Searches(_, _)
Searches(i, n) == IF n = 0 THEN <<>> ELSE <<<<i, "search">>>> \o Searches(i, n - 1)

StagesOf(i) ==
    <<<<i, "capture">>>> \o Searches(i, p_groups[i]) \o <<<<i, "apply_scale">>>>
    \o (IF pcfg.apply_clip THEN <<<<i, "clip_search">>, <<i, "apply_clip">>>> ELSE <<>>)
    \o (IF pcfg.export_compatible THEN <<>> ELSE <<<<i, "quant">>>>)

RECURSIVE StagesUpTo(_)
StagesUpTo(n) == IF n = 0 THEN <<>> ELSE StagesUpTo(n - 1) \o StagesOf(n)

IsPrefix(s, t) == Len(s) <= Len(t) /\ s = SubSeq(t, 1, Len(s))

\* C14: in each module the stages run in the order capture, one scale search
\* per scaling group, apply scale, clip search, apply clip, quantize; the
\* stages of a module all come before the stages of the next; the clip search
\* and the clip application are left out exactly when apply_clip is false.
C14_StageOrder ==
    /\ IsPrefix(p_log, StagesUpTo(Len(p_w)))
    /\ ppc = "done" => p_log = StagesUpTo(Len(p_w))

\* a run over two modules to the end, with clipping, module 1 with two groups
C14_Witness ==
    /\ ppc = "done"
    /\ Len(p_w) = 2
    /\ pcfg.apply_clip
    /\ ~pcfg.export_compatible
    /\ p_groups[1] = 2
    /\ Len(p_log) > 10

\* C21: when quantize stops with an error in some module, no linear of any
\* module, the earlier modules included, has been replaced by a quantized
\* module, rescaled or clipped.
C21_AllOrNothing ==
    ppc \in {"ValueError", "Exception"} =>
        \A i \in DOMAIN p_w : \A j \in DOMAIN p_w[i] :
            /\ ~p_w[i][j].replaced
            /\ ~p_w[i][j].scaled
            /\ ~p_w[i][j].clipped

\* the linears of the modules 1..n in the order of pack
RECURSIVE LinearsUpTo(_)
LinearsUpTo(n) ==
    IF n = 0 THEN <<>>
    ELSE LinearsUpTo(n - 1) \o [j \in 1..Len(p_w[n]) |-> <<n, j>>]

\* C25: with export_compatible, quantize replaces no linear and leaves every
\* weight floating point, scaled and clipped only, up to its end; pack() then
\* replaces the linears module by module in their order, each exactly once,
\* and when it is over every linear of every module is replaced.
C25_PackAfterExport ==
    pcfg.export_compatible =>
        /\ ~p_pack.on =>
              \A i \in DOMAIN p_w : \A j \in DOMAIN p_w[i] :
                  ~p_w[i][j].pq /\ ~p_w[i][j].replaced
        /\ p_pack.on =>
              /\ IsPrefix(p_pack.log, LinearsUpTo(Len(p_w)))
              /\ \A i \in DOMAIN p_w : \A j \in DOMAIN p_w[i] :
                    p_w[i][j].replaced <=> \E k \in DOMAIN p_pack.log : p_pack.log[k] = <<i, j>>
        /\ ppc = "packed" => p_pack.log = LinearsUpTo(Len(p_w))

\* two modules, scaled and clipped by quantize, have been packed
C25_Witness ==
    /\ ppc = "packed"
    /\ pcfg.export_compatible
    /\ Len(p_w) = 2
    /\ Len(p_pack.log) = 2 * Len(p_w[1])
    /\ \A j \in DOMAIN p_w[2] : p_w[2][j].clipped /\ p_w[2][j].replaced
    /\ \E j \in DOMAIN p_w[1] : p_w[1][j].scaled

\* C20: a module for which the adapter gives no scaling groups stops the run:
\* no scale is applied to it, it is not clipped and not quantized.
C20_NoGroupsAborts ==
    \A k \in DOMAIN p_log :
        p_log[k][2] \in {"apply_scale", "clip_search", "apply_clip", "quant"}
            => p_groups[p_log[k][1]] > 0

-----------------------------------------------------------------------------
(* _search_best_scale, called twice on the same module, layers and input.  *)
(*                                                                         *)
(* Every row of the weight of the layers is a multiple of one row of       *)
(* magnitudes w_abs, and the rows are one quantization group, so that the  *)
(* normalised weight has the same row everywhere and w_mean is that row.   *)

\* 1e-6
Eps6 == Fin(-(6 * Decade))

\* a + b for a, b >= 0
FAddPos(dt, a, b) ==
    IF IsNaN(a) \/ IsNaN(b) THEN FNaN
    ELSE IF IsInf(a) \/ IsInf(b) THEN FInf
    ELSE IF IsZero(a) THEN b
    ELSE IF IsZero(b) THEN a
    ELSE LET d == Abs(a[2] - b[2])
             hi == IF a[2] > b[2] THEN a[2] ELSE b[2]
         IN  IF d >= Len(LogAdd) THEN Fin(hi) ELSE FRound(dt, hi + LogAdd[d + 1])

\* weight.abs() / (weight.abs().amax(dim=1, keepdim=True) + 1e-6), then the
\* mean over the rows; t is the weight the layers hold now
WMeanOf(dt, a, t) ==
    LET v == Tensor([j \in DOMAIN a |-> FMul("real", a[j], t.mult[j])])
        amax == FAddPos(dt, FMax(v), Eps6)
    IN  Tensor([j \in DOMAIN a |-> FDiv(dt, v[j], amax)])

SearchInit ==
    /\ sdev \in [device : {"cpu", "cuda"}, dtype : {"float16", "float32"},
                 duo_scaling : BOOLEAN]
    /\ x_mean \in [Channels -> XVals]
    /\ w_abs \in [Channels -> WVals]
    /\ w_mean = <<>>
    /\ loss_of \in LossProfiles
    /\ ProfileFits(x_mean, loss_of)
    /\ kw_cache \in BOOLEAN
    /\ call_no = 1
    /\ first_ret = <<>>
    /\ store = [l \in 1..NLin |->
                   [s \in Slots |-> IF s = "orig" THEN OrigWeight(Cardinality(Channels))
                                    ELSE NoTensor]]
    /\ param = [l \in 1..NLin |-> "orig"]
    /\ org_sd = <<>>
    /\ ratio_i = 0
    /\ s_scales = <<>>
    /\ history = <<>>
    /\ best_error = LossInf
    /\ best_ratio = -1
    /\ best_scales = <<>>
    /\ logged = <<>>
    /\ ret_scales = <<>>
    /\ spc = "call"
    /\ ScaleRestIdle

\* _search_best_scale up to the call of _compute_best_scale, and the locals
\* of _compute_best_scale: "use_cache" is popped from the caller's kwargs,
\* w_mean is computed from the weights the layers hold
SearchBestScale ==
    /\ spc = "call"
    /\ kw_cache' = FALSE
    /\ w_mean' = WMeanOf(sdev.dtype, w_abs, Weight(1))
    /\ org_sd' = <<>>
    /\ ratio_i' = 0
    /\ s_scales' = <<>>
    /\ history' = <<>>
    /\ best_error' = LossInf
    /\ best_ratio' = -1
    /\ best_scales' = <<>>
    /\ ret_scales' = <<>>
    /\ spc' = "start"
    /\ UNCHANGED <<sdev, x_mean, loss_of, store, param, logged,
                   w_abs, call_no, first_ret, r_rest>>

\* the first call returns; the caller calls again with the same arguments
SearchReturn ==
    /\ spc = "returned"
    /\ call_no = 1
    /\ first_ret' = ret_scales
    /\ call_no' = 2
    /\ spc' = "call"
    /\ UNCHANGED <<sdev, x_mean, w_mean, loss_of, store, param, org_sd, ratio_i,
                   s_scales, history, best_error, best_ratio, best_scales, logged,
                   ret_scales, w_abs, kw_cache, r_rest>>

SearchNext ==
    \/ SearchBestScale
    \/ SaveState
    \/ TrialBegin
    \/ TrialEnd
    \/ SearchEnd
    \/ SearchReturn

SpecSearch == SearchInit /\ [][SearchNext]_vars

\* C11: the second of two calls of _search_best_scale on the same module,
\* layers, input and configuration returns the scale vector the first call
\* returned, and returns whenever the first did.
C11_SecondCallSame ==
    call_no = 2 =>
        /\ spc # "Exception"
        /\ spc = "returned" => ret_scales = first_ret

-----------------------------------------------------------------------------
(* _compute_loss                                                           *)
(*                                                                         *)
(* The elements are integers; the squares and their sums are exact.        *)

\* chunk_size = min(max_chunk_memory // (element_size * 2), num_elements)
ChunkSize(mem, esz, n) ==
    LET c == mem \div (esz * 2)
    IN  IF c < n THEN c ELSE n

\* the chunks without the shorter chunk at the end
SplitFullOnly(n, c) ==
    IF n = 0 THEN << <<1, 0>> >>
    ELSE Tensor([k \in 1..(n \div c) |-> <<(k - 1) * c + 1, k * c>>])

\* torch.split(t, c) of a tensor of n elements as the ranges <<first, last>>:
\* chunks of c elements, the last one shorter if c does not divide n; one
\* empty chunk for an empty tensor
Split(n, c) ==
    IF n = 0 THEN << <<1, 0>> >>
    ELSE Tensor([k \in 1..((n + c - 1) \div c) |->
                    <<(k - 1) * c + 1, IF k * c < n THEN k * c ELSE n>>])

\* (a - b).float().pow(2).sum() over the elements first..last
RECURSIVE SumSq(_, _, _, _)
SumSq(a, b, first, last) ==
    IF first > last THEN 0
    ELSE (a[first] - b[first]) * (a[first] - b[first]) + SumSq(a, b, first + 1, last)

\* the longest tensors
MaxLen == 3

LossVals == {-1, 0, 2}

\* max_chunk_memory in bytes; the last is the default of 1024 * 1024 * 1024
LossMems == {0, 3, 4, 8, 11, 12, 16, 1024 * 1024 * 1024}

LossInit ==
    /\ \E n \in 0..MaxLen :
          /\ l_a \in [1..n -> LossVals]
          /\ l_b \in [1..n -> LossVals]
    /\ l_mem \in LossMems
    /\ l_esz \in {2, 4}
    /\ l_chunks = <<>>
    /\ l_k = 0
    /\ l_loss = 0
    /\ l_seen = [i \in DOMAIN l_a |-> 0]
    /\ l_ret = <<>>
    /\ lpc = "start"
    /\ LossRestIdle

\* the chunk size and torch.split, which rejects a chunk size of 0 for a
\* tensor that is not empty
LossSplit ==
    /\ lpc = "start"
    /\ \E c \in {ChunkSize(l_mem, l_esz, Len(l_a))} :
          IF c = 0 /\ Len(l_a) > 0
          THEN /\ lpc' = "RuntimeError"
               /\ UNCHANGED l_chunks
          ELSE /\ l_chunks' = Split(Len(l_a), c)
               /\ lpc' = "loop"
    /\ UNCHANGED <<l_a, l_b, l_mem, l_esz, l_k, l_loss, l_seen, l_ret, l_rest>>

\* one turn of the loop: loss += chunk_loss
LossChunk ==
    /\ lpc = "loop"
    /\ l_k < Len(l_chunks)
    /\ \E ch \in {l_chunks[l_k + 1]} :
          /\ l_loss' = l_loss + SumSq(l_a, l_b, ch[1], ch[2])
          /\ l_seen' = [i \in DOMAIN l_seen |->
                           IF ch[1] <= i /\ i <= ch[2] THEN l_seen[i] + 1
                           ELSE l_seen[i]]
    /\ l_k' = l_k + 1
    /\ UNCHANGED <<l_a, l_b, l_mem, l_esz, l_chunks, l_ret, lpc, l_rest>>

\* loss /= num_elements; return loss
LossReturn ==
    /\ lpc = "loop"
    /\ l_k = Len(l_chunks)
    /\ IF Len(l_a) = 0
       THEN /\ lpc' = "ZeroDivisionError"
            /\ UNCHANGED l_ret
       ELSE /\ l_ret' = Rat(l_loss, Len(l_a))
            /\ lpc' = "returned"
    /\ UNCHANGED <<l_a, l_b, l_mem, l_esz, l_chunks, l_k, l_loss, l_seen, l_rest>>

LossNext == LossSplit \/ LossChunk \/ LossReturn

SpecLoss == LossInit /\ [][LossNext]_vars

-----------------------------------------------------------------------------
(* Properties of _compute_loss.                                            *)

\* the sum of the squared differences over the number of elements, unchunked
RefLoss(a, b) == Rat(SumSq(a, b, 1, Len(a)), Len(a))

LossOver == lpc \in {"returned", "RuntimeError", "ZeroDivisionError"}

\* C12 as stated: for every pair of equal-length tensors and every
\* max_chunk_memory, _compute_loss returns the sum of the squared differences
\* over the number of elements, every element being part of exactly one chunk.
C12_AnyMemory ==
    LossOver =>
        /\ lpc = "returned"
        /\ l_ret = RefLoss(l_a, l_b)
        /\ \A i \in DOMAIN l_seen : l_seen[i] = 1

\* C12 amended: for every pair of equal-length tensors that are not empty and
\* every max_chunk_memory of at least two elements' bytes, _compute_loss
\* returns the sum of the squared differences over the number of elements,
\* every element being part of exactly one chunk; with a smaller
\* max_chunk_memory, or empty tensors, it raises.
C12_ChunkedIsUnchunked ==
    LossOver =>
        IF Len(l_a) > 0 /\ l_mem >= 2 * l_esz
        THEN /\ lpc = "returned"
             /\ l_ret = RefLoss(l_a, l_b)
             /\ \A i \in DOMAIN l_seen : l_seen[i] = 1
        ELSE lpc # "returned"

\* a loss above 0 summed over more than one chunk, the last chunk shorter
C12_Witness ==
    /\ lpc = "returned"
    /\ Len(l_chunks) > 1
    /\ l_chunks[Len(l_chunks)][2] - l_chunks[Len(l_chunks)][1]
          < l_chunks[1][2] - l_chunks[1][1]
    /\ l_ret # RInt(0)

-----------------------------------------------------------------------------
(* init_quant: the capture of the input of the first layer by Catcher.     *)

\* how the model calls its first layer: hidden states and attention mask
\* positional, hidden states alone positional, everything by keyword
CallShapes == {"args2", "args1", "kwargs"}

\* what the stages of the model before the first layer raise
EmbedErrors == {"none", "ValueError", "RuntimeError"}

\* the keyword arguments of the call besides the hidden states and the mask
KwargNames == {"position_ids", "input_ids", "use_cache"}

NoExc == [type |-> "none", from |-> "none"]

\* Catcher.forward: what it appends to inps and attention_mask, what it puts
\* into layer_kwargs and what it raises.  attn_mask is only bound when there
\* are positional arguments, and args[1] needs two of them.
CatcherForward(shape, kw) ==
    IF shape = "args2"
    THEN [inps |-> <<"hidden_states">>, mask |-> <<"attn_mask">>, kwargs |-> kw,
          raises |-> "ValueError"]
    ELSE IF shape = "args1"
    THEN [inps |-> <<>>, mask |-> <<>>, kwargs |-> {}, raises |-> "IndexError"]
    ELSE [inps |-> <<"hidden_states">>, mask |-> <<>>, kwargs |-> {},
          raises |-> "UnboundLocalError"]

\* the wrapper stays in place
KeepWrapper(first) == first

\* modules[0] = modules[0].module
Unwrap(first) == "layer"

\* except ValueError
Suppressed(exc) == exc.type = "ValueError"

InitInit ==
    /\ i_env \in [shape : CallShapes, embed : EmbedErrors, kwargs : SUBSET KwargNames,
                  xlmr : BOOLEAN]
    /\ i_first = "layer"
    /\ i_inps = <<>>
    /\ i_mask = <<>>
    /\ i_kwargs = {}
    /\ i_exc = NoExc
    /\ i_supp = "none"
    /\ ipc = "start"
    /\ InitRestIdle

\* up to modules[0] = Catcher(modules[0])
InitPatch ==
    /\ ipc = "start"
    /\ i_first' = "Catcher"
    /\ ipc' = "model"
    /\ UNCHANGED <<i_env, i_inps, i_mask, i_kwargs, i_exc, i_supp, i_rest>>

\* self.model(...): the stages before the first layer
ModelEmbed ==
    /\ ipc = "model"
    /\ IF i_env.embed = "none"
       THEN /\ ipc' = "layer"
            /\ UNCHANGED i_exc
       ELSE /\ i_exc' = [type |-> i_env.embed, from |-> "embed"]
            /\ ipc' = "except"
    /\ UNCHANGED <<i_env, i_first, i_inps, i_mask, i_kwargs, i_supp, i_rest>>

\* self.model(...): the call of modules[0], which is the Catcher
ModelLayer ==
    /\ ipc = "layer"
    /\ \E c \in {CatcherForward(i_env.shape, i_env.kwargs)} :
          /\ i_inps' = i_inps \o c.inps
          /\ i_mask' = i_mask \o c.mask
          /\ i_kwargs' = i_kwargs \cup c.kwargs
          /\ i_exc' = [type |-> c.raises, from |-> "Catcher"]
    /\ ipc' = "except"
    /\ UNCHANGED <<i_env, i_first, i_supp, i_rest>>

\* except ValueError: pass, and the restore after it; any other exception
\* leaves init_quant
InitExcept ==
    /\ ipc = "except"
    /\ IF Suppressed(i_exc)
       THEN /\ i_supp' = i_exc.from
            /\ i_first' = Unwrap(i_first)
            /\ ipc' = "after"
       ELSE /\ ipc' = i_exc.type
            /\ UNCHANGED <<i_supp, i_first>>
    /\ i_exc' = NoExc
    /\ UNCHANGED <<i_env, i_inps, i_mask, i_kwargs, i_rest>>

\* prepare_inputs_for_generation(samples, **layer_kwargs) of the model, which
\* adds the input_ids; not called for XLMRobertaForSequenceClassification
PreparedKwargs(env, kw) == IF env.xlmr THEN kw ELSE kw \cup {"input_ids"}

\* the rest of init_quant: layer_kwargs is completed, input_ids is popped,
\* inps = inps[0], attention_mask = attention_mask[0], the return
InitFinish ==
    /\ ipc = "after"
    /\ i_kwargs' = PreparedKwargs(i_env, i_kwargs) \ {"input_ids"}
    /\ ipc' = IF Len(i_inps) = 0 \/ Len(i_mask) = 0 THEN "IndexError"
              ELSE "returned"
    /\ UNCHANGED <<i_env, i_first, i_inps, i_mask, i_exc, i_supp, i_rest>>

InitNext == InitPatch \/ ModelEmbed \/ ModelLayer \/ InitExcept \/ InitFinish

SpecInit == InitInit /\ [][InitNext]_vars

-----------------------------------------------------------------------------
(* Properties of init_quant.                                               *)

\* C15: whenever init_quant returns, modules[0] is the first layer itself and
\* not the Catcher.
C15_WrapperRemoved == ipc = "returned" => i_first = "layer"

\* init_quant returned after the Catcher had been in place and had recorded
C15_Witness ==
    /\ ipc = "returned"
    /\ i_supp = "Catcher"
    /\ Len(i_inps) = 1

\* C16: the only exception that is swallowed is the one the Catcher raises
\* after recording; what the stages before the first layer raise leaves
\* init_quant as that error.
C16_OnlySentinelSuppressed ==
    /\ i_supp \in {"none", "Catcher"}
    /\ (i_env.embed # "none" /\ ipc \notin {"start", "model", "except"})
          => ipc = i_env.embed

\* C17: for positional and for keyword-only calls of the first layer the
\* Catcher records the hidden states and the keyword arguments and ends by
\* raising the sentinel.
C17_BothCallShapes ==
    (ipc = "except" /\ i_exc.from = "Catcher" /\ i_env.shape \in {"args2", "kwargs"}) =>
        /\ i_exc.type = "ValueError"
        /\ i_inps = <<"hidden_states">>
        /\ i_kwargs = i_env.kwargs

-----------------------------------------------------------------------------
(* _get_input_feat: the forward hooks that collect the input features.     *)

LinearNames == {"q_proj", "up_proj"}

\* the sub-modules of a layer that can carry a hook
SubModules == LinearNames \cup {"block_sparse_moe", "mlp"}

ModelTypes == {"llama", "mixtral", "deepseek_v2"}

\* the workaround entries added to named_linears
ExtraNames(model_type) ==
    IF model_type = "mixtral" THEN {"block_sparse_moe"}
    ELSE IF model_type = "deepseek_v2" THEN {"mlp"}
    ELSE {}

\* the keys of named_linears after the workarounds
HookedNames(env) == env.named \cup ExtraNames(env.model_type)

\* a set as a sequence, in some order
RECURSIVE SeqOf(_)
SeqOf(S) ==
    IF S = {} THEN <<>>
    ELSE LET x == CHOOSE y \in S : TRUE IN <<x>> \o SeqOf(S \ {x})

\* the hooks stay registered
KeepHandles(hooks, handles) == hooks

\* for h in handles: h.remove()
RECURSIVE RemoveHandles(_, _)
RemoveHandles(hooks, handles) ==
    IF handles = <<>> THEN hooks
    ELSE RemoveHandles([hooks EXCEPT ![Head(handles)] = hooks[Head(handles)] - 1],
                       Tail(handles))

\* a forward pass of the layer in nb sub-batches: every hook of every
\* sub-module runs once per sub-batch and appends one tensor
HooksFire(feat, hooks, nb) == Table([n \in SubModules |-> feat[n] + nb * hooks[n]])

\* forward passes after the return that the model follows
MaxLater == 2

FeatInit ==
    /\ f_env \in [model_type : ModelTypes, named : SUBSET LinearNames,
                  nb : {1, 2}, raises : BOOLEAN]
    /\ f_hooks = [n \in SubModules |-> 0]
    /\ f_handles = <<>>
    /\ f_feat = [n \in SubModules |-> 0]
    /\ f_ret = <<>>
    /\ f_later = 0
    /\ fpc = "start"
    /\ FeatRestIdle

\* the hooks are registered, one for each key of named_linears
FeatRegister ==
    /\ fpc = "start"
    /\ f_hooks' = Table([n \in SubModules |->
                           IF n \in HookedNames(f_env) THEN f_hooks[n] + 1
                           ELSE f_hooks[n]])
    /\ f_handles' = SeqOf(HookedNames(f_env))
    /\ fpc' = "forward"
    /\ UNCHANGED <<f_env, f_feat, f_ret, f_later, f_rest>>

\* self.inps = self._module_forward(...)
FeatForward ==
    /\ fpc = "forward"
    /\ IF f_env.raises
       THEN /\ fpc' = "Error"
            /\ UNCHANGED f_feat
       ELSE /\ f_feat' = HooksFire(f_feat, f_hooks, f_env.nb)
            /\ fpc' = "remove"
    /\ UNCHANGED <<f_env, f_hooks, f_handles, f_ret, f_later, f_rest>>

\* for h in handles: h.remove()
FeatRemove ==
    /\ fpc = "remove"
    /\ f_hooks' = RemoveHandles(f_hooks, f_handles)
    /\ fpc' = "cat"
    /\ UNCHANGED <<f_env, f_handles, f_feat, f_ret, f_later, f_rest>>

\* input_feat = {k: torch.cat(v, dim=0) ...}; return input_feat
FeatReturn ==
    /\ fpc = "cat"
    /\ f_ret' = f_feat
    /\ fpc' = "returned"
    /\ UNCHANGED <<f_env, f_hooks, f_handles, f_feat, f_later, f_rest>>

\* a later forward pass of the layer: a trial of the scale search, the
\* reference output
FeatLaterForward ==
    /\ fpc = "returned"
    /\ f_later < MaxLater
    /\ f_feat' = HooksFire(f_feat, f_hooks, f_env.nb)
    /\ f_later' = f_later + 1
    /\ UNCHANGED <<f_env, f_hooks, f_handles, f_ret, fpc, f_rest>>

FeatNext ==
    \/ FeatRegister
    \/ FeatForward
    \/ FeatRemove
    \/ FeatReturn
    \/ FeatLaterForward

SpecFeat == FeatInit /\ [][FeatNext]_vars

\* C18: _get_input_feat registers exactly one hook for each named linear and
\* for the extra sub-module of mixtral and deepseek_v2; when it has returned
\* no hook is registered, and later forward passes add nothing to the
\* feature lists.
C18_HooksRemoved ==
    /\ fpc \in {"forward", "remove"} =>
          \A n \in SubModules :
              f_hooks[n] = IF n \in f_env.named \cup ExtraNames(f_env.model_type)
                           THEN 1 ELSE 0
    /\ fpc = "returned" =>
          /\ \A n \in SubModules : f_hooks[n] = 0
          /\ f_feat = f_ret

\* features of a mixtral layer were collected, and forward passes followed
C18_Witness ==
    /\ fpc = "returned"
    /\ f_later = MaxLater
    /\ f_env.model_type = "mixtral"
    /\ f_ret["block_sparse_moe"] > 0
    /\ f_ret["q_proj"] > 0

-----------------------------------------------------------------------------
(* How each stage splits a 2-D weight of shape <<co, ci>> into quantization *)
(* groups: <<"groups", number of groups, length of a group>>, or the error  *)
(* the stage raises.                                                        *)

Groups(n, len) == <<"groups", n, len>>

Raises(err) == <<"raises", err>>

\* Tensor.view(-1, g) and Tensor.reshape(-1, g) of numel elements
ViewGroups(numel, g) ==
    IF g > 0 /\ numel % g = 0 THEN Groups(numel \div g, g)
    ELSE Raises("RuntimeError")

\* pseudo_quantize_tensor of a tensor of ndim dimensions, the last of length
\* last: the assert and reshape under group_size > 0, then assert w.dim() == 2
PseudoQuantizeGroups(gs, numel, last, ndim) ==
    IF gs > 0
    THEN IF last % gs = 0 THEN ViewGroups(numel, gs) ELSE Raises("AssertionError")
    ELSE IF ndim = 2 THEN Groups(numel \div last, last)
    ELSE Raises("AssertionError")

\* weight.view(-1, self.group_size) of _search_best_scale
WMeanGroups(gs, co, ci) == ViewGroups(co * ci, gs)

\* _compute_best_clip: w.reshape(co, 1, -1, group_size), the assert on the
\* blocks of output channels, then pseudo_quantize_tensor of the 4-D cur_w of
\* one block
ClipGroups(gs, co, ci) ==
    LET group_size == IF gs > 0 THEN gs ELSE ci
        ocb        == oc_batch_size(co)
    IN  IF ci % group_size # 0 THEN Raises("RuntimeError")
        ELSE IF co % ocb # 0 THEN Raises("AssertionError")
        ELSE PseudoQuantizeGroups(gs, ocb * ci, group_size, 4)

GroupSizes == {-1, 0, 2, 3, 4}

GroupChannels == {64, 96, 256}

\* the largest number of input channels
MaxCi == 4

GroupInit ==
    /\ g_size \in GroupSizes
    /\ g_shape \in GroupChannels \X (1..MaxCi)
    /\ g_pq = <<>>
    /\ g_wm = <<>>
    /\ g_clip = <<>>
    /\ GroupRestIdle

GroupPseudoQuantize ==
    /\ g_pq = <<>>
    /\ g_pq' = PseudoQuantizeGroups(g_size, g_shape[1] * g_shape[2], g_shape[2], 2)
    /\ UNCHANGED <<g_size, g_shape, g_wm, g_clip, g_rest>>

GroupWMean ==
    /\ g_wm = <<>>
    /\ g_wm' = WMeanGroups(g_size, g_shape[1], g_shape[2])
    /\ UNCHANGED <<g_size, g_shape, g_pq, g_clip, g_rest>>

GroupClip ==
    /\ g_clip = <<>>
    /\ g_clip' = ClipGroups(g_size, g_shape[1], g_shape[2])
    /\ UNCHANGED <<g_size, g_shape, g_pq, g_wm, g_rest>>

GroupNext ==
    \/ GroupPseudoQuantize
    \/ GroupWMean
    \/ GroupClip

SpecGroup == GroupInit /\ [][GroupNext]_vars

\* C22: with group_size <= 0, pseudo_quantize_tensor of a 2-D weight, the
\* w_mean of _search_best_scale and the quantization of a candidate in
\* _compute_best_clip all complete, each with one group per row, the whole row.
\* (For the clip search the rows are those of one block of output channels.)
C22_WholeRowGroups ==
    g_size <= 0 =>
        /\ g_pq # <<>> => g_pq = Groups(g_shape[1], g_shape[2])
        /\ g_wm # <<>> => g_wm = Groups(g_shape[1], g_shape[2])
        /\ g_clip # <<>> =>
              \/ g_clip = Groups(oc_batch_size(g_shape[1]), g_shape[2])
              \/ g_shape[1] % oc_batch_size(g_shape[1]) # 0

-----------------------------------------------------------------------------
(* _module_forward: the whole batch at once, or in sub-batches.            *)

\* the rows first..last of x
Rows(x, r) == SubSeq(x, r[1], r[2])

\* what the module computes for the samples xs, one row per sample; the row
\* depends on the sample and on whether the attention mask was passed
ModuleRows(xs, masked) == Tensor([k \in 1..Len(xs) |-> [of |-> xs[k], masked |-> masked]])

\* the value of a call of the module: the rows, alone or first in a tuple
ModuleCall(xs, masked, tup) == [tuple |-> tup, first |-> ModuleRows(xs, masked)]

\* if isinstance(module_output, tuple): module_output = module_output[0]
FirstOutput(o) == o.first

\* module(x, attention_mask, **module_kwargs) if attention_mask is not None,
\* else module(x, **module_kwargs): whether the mask is passed
WholeBatchMasked(mask) == mask

\* module(x_partial, **module_kwargs): whether the mask is passed
PartialMasked(mask) == FALSE

\* the partial outputs the other way round
RECURSIVE CatReversed(_)
CatReversed(outs) == IF outs = <<>> THEN <<>> ELSE CatReversed(Tail(outs)) \o Head(outs)

\* torch.cat(module_output, dim=0)
RECURSIVE Cat(_)
Cat(outs) == IF outs = <<>> THEN <<>> ELSE Head(outs) \o Cat(Tail(outs))

\* the largest number of calibration samples
MaxSamples == 4

\* the largest sub-batch size
MaxParallel == 3

SampleVals == {"a", "b"}

FwdInit ==
    /\ m_env \in [n : {<<>>} \cup {<<k>> : k \in 0..MaxParallel},
                  mask : BOOLEAN, tuple : BOOLEAN]
    /\ \E len \in 0..MaxSamples : m_x \in [1..len -> SampleVals]
    /\ m_parts = <<>>
    /\ m_calls = <<>>
    /\ m_out = <<>>
    /\ m_ret = <<>>
    /\ mpc = "start"
    /\ FwdRestIdle

\* n_parallel_calib_samples is None: one call with all samples
FwdWhole ==
    /\ mpc = "start"
    /\ m_env.n = <<>>
    /\ m_calls' = Append(m_calls, [rows |-> <<1, Len(m_x)>>,
                                   masked |-> WholeBatchMasked(m_env.mask)])
    /\ m_ret' = FirstOutput(ModuleCall(m_x, WholeBatchMasked(m_env.mask), m_env.tuple))
    /\ mpc' = "returned"
    /\ UNCHANGED <<m_env, m_x, m_parts, m_out, m_rest>>

\* torch.split(x, self.n_parallel_calib_samples), which rejects the size 0
\* for a tensor that is not empty
FwdSplit ==
    /\ mpc = "start"
    /\ m_env.n # <<>>
    /\ IF m_env.n[1] = 0 /\ Len(m_x) > 0
       THEN /\ mpc' = "RuntimeError"
            /\ UNCHANGED m_parts
       ELSE /\ m_parts' = Split(Len(m_x), m_env.n[1])
            /\ mpc' = "loop"
    /\ UNCHANGED <<m_env, m_x, m_calls, m_out, m_ret, m_rest>>

\* one turn of the loop over partitioned_inputs; the partial output is kept
\* on the host
FwdPartial ==
    /\ mpc = "loop"
    /\ Len(m_out) < Len(m_parts)
    /\ \E r \in {m_parts[Len(m_out) + 1]} :
          /\ m_calls' = Append(m_calls, [rows |-> r, masked |-> PartialMasked(m_env.mask)])
          /\ m_out' = Append(m_out, FirstOutput(ModuleCall(Rows(m_x, r),
                                                           PartialMasked(m_env.mask),
                                                           m_env.tuple)))
    /\ UNCHANGED <<m_env, m_x, m_parts, m_ret, mpc, m_rest>>

\* module_output = torch.cat(module_output, dim=0); return module_output
FwdCat ==
    /\ mpc = "loop"
    /\ Len(m_out) = Len(m_parts)
    /\ m_ret' = Cat(m_out)
    /\ mpc' = "returned"
    /\ UNCHANGED <<m_env, m_x, m_parts, m_calls, m_out, m_rest>>

FwdNext ==
    \/ FwdWhole
    \/ FwdSplit
    \/ FwdPartial
    \/ FwdCat

SpecFwd == FwdInit /\ [][FwdNext]_vars

\* the samples of the calls so far, in the order of the calls
RECURSIVE CallRows(_)
CallRows(calls) ==
    IF calls = <<>> THEN <<>> ELSE Rows(m_x, Head(calls).rows) \o CallRows(Tail(calls))

CallLen(c) == c.rows[2] - c.rows[1] + 1

\* C23: with n_parallel_calib_samples set, the calls of the module take the
\* samples in their order, each sample once: every sub-batch but the last has
\* exactly n samples, the last at most n; when _module_forward returns every
\* sample has been forwarded and row k of the result is the output of the
\* module for sample k.
C23_SubBatchesInOrder ==
    m_env # <<>> /\ m_env.n # <<>> =>
        /\ CallRows(m_calls) = SubSeq(m_x, 1, Len(CallRows(m_calls)))
        /\ \A c \in DOMAIN m_calls :
              /\ CallLen(m_calls[c]) <= m_env.n[1]
              /\ c < Len(m_calls) => CallLen(m_calls[c]) = m_env.n[1]
              /\ c > 1 => m_calls[c].rows[1] = m_calls[c - 1].rows[2] + 1
        /\ mpc = "returned" =>
              /\ CallRows(m_calls) = m_x
              /\ Len(m_ret) = Len(m_x)
              /\ \A k \in DOMAIN m_x : m_ret[k].of = m_x[k]

\* four samples went through in sub-batches of three: a full and a shorter one
C23_Witness ==
    /\ mpc = "returned"
    /\ m_env.n = <<3>>
    /\ Len(m_calls) = 2
    /\ m_x = <<"a", "b", "b", "a">>
    /\ m_ret # <<>>

\* C30: with an attention mask given, every call of the module gets the mask,
\* in the whole-batch path and in the sub-batch path alike, so the returned
\* tensor is the one the whole-batch call computes.
C30_MaskInBothModes ==
    m_env # <<>> /\ m_env.mask =>
        /\ \A c \in DOMAIN m_calls : m_calls[c].masked
        /\ mpc = "returned" => m_ret = ModuleRows(m_x, TRUE)

-----------------------------------------------------------------------------
(* _sanitize_kwargs                                                        *)

KwNames == {"attention_mask", "position_ids", "past_key_value"}

KwValues == {"t1", "t2"}

\* the keys of inspect.signature(module.forward).parameters: the named
\* parameters and the name of the **kwargs parameter itself
SignatureKeys(sig) == sig.named \cup (IF sig.var_kw THEN {"kwargs"} ELSE {})

\* module.forward can be called with the keyword k
Accepts(sig, k) == k \in sig.named \/ sig.var_kw

\* the loop over inputs_kwargs.items()
SanitizedKwargs(sig, kw) ==
    Table([k \in {n \in DOMAIN kw : n \in SignatureKeys(sig)} |-> kw[k]])

SanInit ==
    /\ k_sig \in [named : SUBSET KwNames, var_kw : BOOLEAN]
    /\ \E S \in SUBSET KwNames : k_in \in [S -> KwValues]
    /\ k_given = k_in
    /\ k_out = <<>>
    /\ kpc = "start"
    /\ SanRestIdle

SanitizeKwargs ==
    /\ kpc = "start"
    /\ k_out' = SanitizedKwargs(k_sig, k_in)
    /\ kpc' = "returned"
    /\ UNCHANGED <<k_sig, k_in, k_given, k_rest>>

SanNext == SanitizeKwargs

SpecSan == SanInit /\ [][SanNext]_vars

\* C24: the mapping _sanitize_kwargs returns holds exactly the entries of
\* inputs_kwargs whose name module.forward accepts, each with its value, and
\* inputs_kwargs is as it was; no accepted name is dropped.
C24_ExactlyAccepted ==
    kpc = "returned" =>
        /\ DOMAIN k_out = {k \in DOMAIN k_given : Accepts(k_sig, k)}
        /\ \A k \in DOMAIN k_out : k_out[k] = k_given[k]
        /\ k_in = k_given

-----------------------------------------------------------------------------
(* The x_mean of _search_best_scale: the per-channel mean of |inp| over    *)
(* the rows, summed chunk by chunk.  The entries are integers; the sums    *)
(* are exact.                                                              *)

\* chunk_size = min(int(max_chunk_memory // (element_size * 2 * num_channels)),
\*                  num_elements)
XChunkSize(mem, esz, nch, n) ==
    LET c == mem \div (esz * 2 * nch)
    IN  IF c < n THEN c ELSE n

\* the row as it is
SignedRow(row) == row

\* inp.cpu().abs(), one row
AbsRow(row) == Tensor([j \in 1..Len(row) |-> Abs(row[j])])

\* inp_flat[first:last].sum(dim=0) over the rows first + 1..last
RECURSIVE ChunkSum(_, _, _, _)
ChunkSum(inp, first, last, nch) ==
    IF first >= last THEN Tensor([j \in 1..nch |-> 0])
    ELSE LET rest == ChunkSum(inp, first + 1, last, nch)
             row  == AbsRow(inp[first + 1])
         IN  Tensor([j \in 1..nch |-> row[j] + rest[j]])

\* the most rows and the most channels of inp
MaxRows == 3

MaxChannels == 2

XMeanVals == {-1, 2}

\* max_chunk_memory in bytes; the last is the default of 1024 * 1024 * 1024
XMeanMems == {0, 4, 8, 16, 24, 1024 * 1024 * 1024}

XMeanInit ==
    /\ \E n \in 0..MaxRows : \E nch \in 1..MaxChannels :
          a_inp \in [1..n -> [1..nch -> XMeanVals]]
    /\ a_mem \in XMeanMems
    /\ a_esz \in {2, 4}
    /\ a_i = 0
    /\ a_sum = <<>>
    /\ a_seen = [r \in DOMAIN a_inp |-> 0]
    /\ a_ret = <<>>
    /\ apc = "start"
    /\ XMeanRestIdle

\* the number of channels of inp; an empty inp is taken to have one
XChannels == IF a_inp = <<>> THEN 1 ELSE Len(a_inp[1])

\* the chunk size, x_sum = zeros, and range(0, num_elements, chunk_size),
\* which rejects a step of 0
XMeanStart ==
    /\ apc = "start"
    /\ a_sum' = Tensor([j \in 1..XChannels |-> 0])
    /\ apc' = IF XChunkSize(a_mem, a_esz, XChannels, Len(a_inp)) = 0
              THEN "ValueError" ELSE "loop"
    /\ UNCHANGED <<a_inp, a_mem, a_esz, a_i, a_seen, a_ret, a_rest>>

\* one turn of the loop: x_sum += chunk_sum
XMeanChunk ==
    /\ apc = "loop"
    /\ a_i < Len(a_inp)
    /\ \E c \in {XChunkSize(a_mem, a_esz, XChannels, Len(a_inp))} :
       \E end \in {IF a_i + c < Len(a_inp) THEN a_i + c ELSE Len(a_inp)} :
       \E cs \in {ChunkSum(a_inp, a_i, end, XChannels)} :
          /\ a_sum' = Tensor([j \in 1..XChannels |-> a_sum[j] + cs[j]])
          /\ a_seen' = [r \in DOMAIN a_seen |->
                           IF a_i < r /\ r <= end THEN a_seen[r] + 1 ELSE a_seen[r]]
          /\ a_i' = a_i + c
    /\ UNCHANGED <<a_inp, a_mem, a_esz, a_ret, apc, a_rest>>

\* x_mean = (x_sum / num_elements).to(inp.dtype)
XMeanReturn ==
    /\ apc = "loop"
    /\ a_i >= Len(a_inp)
    /\ a_ret' = Tensor([j \in 1..XChannels |-> <<a_sum[j], Len(a_inp)>>])
    /\ apc' = "returned"
    /\ UNCHANGED <<a_inp, a_mem, a_esz, a_i, a_sum, a_seen, a_rest>>

XMeanNext ==
    \/ XMeanStart
    \/ XMeanChunk
    \/ XMeanReturn

SpecXMean == XMeanInit /\ [][XMeanNext]_vars

\* sum over all rows of |inp[r][j]|
RECURSIVE AbsColumnSum(_, _)
AbsColumnSum(n, j) ==
    IF n = 0 THEN 0 ELSE Abs(a_inp[n][j]) + AbsColumnSum(n - 1, j)

XMeanOver == apc \in {"returned", "ValueError"}

\* what the loop gives when it returns: every row summed once, x_mean the
\* mean of the absolute values over all rows, channel by channel
XMeanRight ==
    /\ \A r \in DOMAIN a_seen : a_seen[r] = 1
    /\ Len(a_ret) = XChannels
    /\ \A j \in DOMAIN a_ret : a_ret[j] = <<AbsColumnSum(Len(a_inp), j), Len(a_inp)>>

\* the statement for every value of max_chunk_memory
C28_AnyMemory ==
    /\ apc # "ValueError"
    /\ apc = "returned" => XMeanRight

\* C28: when max_chunk_memory holds at least one row of inp at twice the
\* element size, and inp has a row, the chunk loop visits every row exactly
\* once and ends, and x_mean is, for each channel, the mean of the absolute
\* values over all rows, whatever the chunk size.
C28_ChunkedMean ==
    (Len(a_inp) > 0 /\ a_mem >= 2 * a_esz * XChannels) =>
        /\ apc # "ValueError"
        /\ \A r \in DOMAIN a_seen : a_seen[r] <= 1
        /\ apc = "loop" => \A r \in DOMAIN a_seen : (a_seen[r] = 1 <=> r <= a_i)
        /\ apc = "returned" => XMeanRight

\* three rows of two channels summed in chunks of two rows and one row
C28_Witness ==
    /\ apc = "returned"
    /\ Len(a_inp) = 3
    /\ XChannels = 2
    /\ XChunkSize(a_mem, a_esz, XChannels, Len(a_inp)) = 2
    /\ \E r \in DOMAIN a_inp : a_inp[r][1] < 0
    /\ a_ret[1][1] > 0

====
